---- MODULE Spec2Model ----
(***************************************************************************)
(* FastTask (thejoaomoura/FastTask): a model of the sampling and           *)
(* reconciliation core -- the lifecycle controller of process_manager.py,  *)
(* the rolling histories of monitoring.py and the sampling scheduler and   *)
(* selection carry-over embedded in ui.py.                                 *)
(*                                                                         *)
(* The module holds several specifications over one set of variables; each *)
(* leaves the variables of the other components at their initial values:   *)
(*   SpecTerminate  terminate_process against a changing process table     *)
(*   SpecSched      the update timer, update_data and its in-flight flag   *)
(*   SpecTable      the process table, its selection and the refresh       *)
(*   SpecHistory    SystemMonitor / ProcessMonitor histories               *)
(*   SpecAverage    SystemMonitor.get_average on given series              *)
(***************************************************************************)
EXTENDS Integers, Sequences, FiniteSets, TLC

VARIABLES
    \* ---- the operating system (psutil's view of it)
    procs,            \* pid -> [alive, name, created_time]
    \* ---- process_manager.terminate_process, one call at a time
    t_pc,             \* position of the call
    t_pid,            \* its argument
    t_handle,         \* created_time of the process psutil.Process(pid) bound
    t_name,           \* process_name resolved by the call
    t_waited,         \* seconds spent in psutil.wait_procs
    t_sent,           \* signals the call delivered to the OS, in order
    t_result,         \* the tuple returned: [success, kind]
    t_raised,         \* the exception raised inside the call's try block
    \* ---- ui.MainWindow: the sampling scheduler
    is_updating,      \* MainWindow.is_updating, the in-flight flag
    in_flight,        \* executions of update_data between setting and clearing it
    timer_active,     \* update_timer.isActive()
    timer_left,       \* half-seconds until update_timer's next timeout
    update_interval,  \* MainWindow.update_interval, in half-seconds
    shots,            \* pending QTimer.singleShot calls: <<[left, what]>>
    view_mode,        \* MainWindow.view_mode
    detailed_mode,    \* MainWindow.detailed_mode
    detail_checkbox,  \* detail_checkbox.isChecked()
    detail_action,    \* detail_action.isChecked()
    toggle_cont,      \* the outer _toggle_view_mode has its update_data call to make
    toggle_wait,      \* ... and waits for the nested handler's update_data to return
    n_requests,       \* calls of update_data so far
    n_idle_requests,  \* ... of which arrived while no sample was in flight
    n_samples,        \* sampling passes started so far
    lastEvent,        \* the handler that ran last
    app_state,        \* "open"; "closed" once closeEvent ran; "exited" once app.exec() returned
    samples_at_close, \* n_samples when closeEvent ran
    last_outcome,     \* how the last sampling pass ended
    \* ---- ui.MainWindow / ui.ProcessTableWidget: the process table
    processes,        \* MainWindow.processes, the latest batch
    search_text,      \* MainWindow.search_text
    table_rows,       \* the rows of the table widget, top to bottom
    table_selected,   \* the selected row, 0 when none
    selected_pid,     \* MainWindow.selected_pid, 0 for None
    sel_created,      \* creation time of the process the user selected, 0 when none
    header_sort,      \* the table header's sort indicator: section and order
    w_text,           \* filter_widget.search_input.text()
    w_sort,           \* filter_widget.sort_combo.currentText()
    \* ---- monitoring.SystemMonitor / monitoring.ProcessMonitor: one monitor
    mon_kind,         \* the class of the monitor: "system" or "process"
    history_length,   \* self.history_length
    cpu_history,      \* self.cpu_history
    ram_history,      \* self.ram_history
    timestamps,       \* self.timestamps
    valid,            \* ProcessMonitor.valid (TRUE for a SystemMonitor)
    proc_gone,        \* the monitored process has exited
    pushed,           \* every data point appended so far, in order
    now,              \* what time.time() returns
    returned,         \* what the last call returned or raised
    avg_called,       \* get_average has been called
    avg_minutes,      \* the argument of the last get_average call
    avg_result,       \* what that call returned
    \* ---- monitoring.ProcessMonitor.is_suspicious: the call that just returned
    susp_called,      \* is_suspicious has just been called
    susp_defaulted,   \* ... without arguments
    susp_cpu_threshold,     \* its cpu_threshold
    susp_ram_threshold_mb,  \* its ram_threshold_mb
    susp_result,      \* what it returned
    \* ---- process_manager.change_process_priority: the last call
    platform,         \* sys.platform: "win32" or "linux"
    os_priority,      \* pid -> the priority the OS holds for the process
    pr_called,        \* a call has been made
    pr_pid,           \* its pid
    pr_level,         \* its priority_level
    pr_lookups,       \* psutil.Process(pid) lookups the call made
    pr_sets,          \* priority changes the call asked the OS for
    pr_result,        \* the tuple returned: [success, kind]
    \* ---- MainWindow._apply_filter: one call
    f_processes,      \* the argument processes, as it is passed
    f_search,         \* filter_widget.search_input.text()
    f_sort_by,        \* filter_widget.sort_combo.currentText()
    f_called,         \* the call has been made
    f_filtered,       \* the list the sort was given
    f_result,         \* the list returned
    f_refresh,        \* the list update_data's filter makes of the same input
    f_found,          \* the list find_process_by_name makes of the same input
    \* ---- process_manager.start_new_process: one call and the OS it meets
    l_platform,       \* sys.platform: "win32" or "linux"
    l_files,          \* the files that exist and can be run or opened
    l_command,        \* the argument command
    l_called,         \* the call has been made
    l_path,           \* the branch it took: "none", "shell" or "direct"
    l_started,        \* the OS started what the command names
    l_result,         \* the tuple returned: [success, kind, pid], pid 0 for None
    \* ---- process_manager.get_process_list: one call and the OS it meets
    snap_pids_fail,   \* psutil.pids() raises
    snap_entries,     \* psutil.pids() in order, with what reading each pid gives
    snap_detailed,    \* the argument detailed
    snap_limit,       \* the argument limit: None, or <<k>> for the integer k
    snap_called,      \* the call has been made
    snap_result       \* what it gave the caller: [list, raised, printed]

osVars    == <<procs>>
termVars  == <<t_pc, t_pid, t_handle, t_name, t_waited, t_sent, t_result,
               t_raised>>
schedVars == <<is_updating, in_flight, timer_active, timer_left, update_interval,
               shots, view_mode, detailed_mode, detail_checkbox, detail_action,
               toggle_cont, toggle_wait, n_requests, n_idle_requests, n_samples,
               lastEvent, app_state, samples_at_close, last_outcome>>

tableVars == <<processes, search_text, table_rows, table_selected, selected_pid,
               sel_created, header_sort, w_text, w_sort>>

histVars  == <<mon_kind, history_length, cpu_history, ram_history, timestamps,
               valid, proc_gone, pushed, now, returned>>
avgVars   == <<avg_called, avg_minutes, avg_result>>
suspVars  == <<susp_called, susp_defaulted, susp_cpu_threshold,
               susp_ram_threshold_mb, susp_result>>
prioVars  == <<platform, os_priority, pr_called, pr_pid, pr_level, pr_lookups,
               pr_sets, pr_result>>
launchVars == <<l_platform, l_files, l_command, l_called, l_path, l_started,
                l_result>>
filterVars == <<f_processes, f_search, f_sort_by, f_called, f_filtered, f_result,
                f_refresh, f_found>>
snapVars  == <<snap_pids_fail, snap_entries, snap_detailed, snap_limit,
               snap_called, snap_result>>

vars == <<osVars, termVars, schedVars, tableVars, histVars, avgVars, snapVars,
         suspVars, prioVars, launchVars, filterVars>>

\* what each component leaves alone
OutsideOS        == UNCHANGED <<termVars, schedVars, tableVars, histVars, avgVars, snapVars, suspVars, prioVars, launchVars, filterVars>>
OutsideTerminate == UNCHANGED <<schedVars, tableVars, histVars, avgVars, snapVars, suspVars, prioVars, launchVars, filterVars>>
OutsideSched     == UNCHANGED <<osVars, termVars, tableVars, histVars, avgVars, snapVars, suspVars, prioVars, launchVars, filterVars>>
OutsideTable     == UNCHANGED <<termVars, schedVars, histVars, avgVars, snapVars, suspVars, prioVars, launchVars, filterVars>>
OutsideHistory   == UNCHANGED <<osVars, termVars, schedVars, tableVars, avgVars, snapVars, prioVars, launchVars, filterVars>>
OutsideAverage   == UNCHANGED <<osVars, termVars, schedVars, tableVars, histVars, snapVars, suspVars, prioVars, launchVars, filterVars>>
OutsideSnapshot  == UNCHANGED <<osVars, termVars, schedVars, tableVars, histVars, avgVars, suspVars, prioVars, launchVars, filterVars>>

----------------------------------------------------------------------------
(* Bounds of the model.                                                    *)

\* pids the OS hands out: 1..MaxPid
MaxPid == 2
\* creation times a pid goes through (PID reuse): 1..MaxCreate
MaxCreate == 2
\* calls of update_data followed in one behaviour
MaxRequests == 4
\* QTimer.singleShot calls pending at one time
MaxShots == 1
\* history_length given to a monitor: 0..MaxHistory
MaxHistory == 2
\* data points a monitor collects in one behaviour
MaxPushes == 3
\* the wall clock runs over 0..MaxTime
MaxTime == 4
\* series of 0..MaxExtra points and of 60..60+MaxExtra points are averaged
MaxExtra == 2
\* get_average is called with -1..MaxMinutes minutes
MaxMinutes == 2
\* pids psutil.pids() returns to one get_process_list call: 0..MaxListed
MaxListed == 3

Pids == 1..MaxPid

----------------------------------------------------------------------------
(* Strings.  A name is a sequence of one-character strings, so that        *)
(* str.lower() and the substring test are computed, not assumed.           *)

UpperChars == <<"A","B","C","D","E","F","G","H","I","J","K","L","M",
                "N","O","P","Q","R","S","T","U","V","W","X","Y","Z">>
LowerChars == <<"a","b","c","d","e","f","g","h","i","j","k","l","m",
                "n","o","p","q","r","s","t","u","v","w","x","y","z">>

lower_char(c) ==
    IF \E i \in DOMAIN UpperChars : UpperChars[i] = c
    THEN LowerChars[CHOOSE i \in DOMAIN UpperChars : UpperChars[i] = c]
    ELSE c

\* str.lower()
lower(s) == [i \in 1..Len(s) |-> lower_char(s[i])]

\* ord(c) for the characters of the names
ord(c) ==
    IF \E i \in DOMAIN UpperChars : UpperChars[i] = c
    THEN 64 + (CHOOSE i \in DOMAIN UpperChars : UpperChars[i] = c)
    ELSE IF \E i \in DOMAIN LowerChars : LowerChars[i] = c
    THEN 96 + (CHOOSE i \in DOMAIN LowerChars : LowerChars[i] = c)
    ELSE IF c = "." THEN 46 ELSE 32

\* a < b for two str: by the first position where they differ, a proper
\* prefix before the longer string
str_less(a, b) ==
    \E i \in 1..(Len(a) + 1) :
        /\ i <= Len(b) + 1
        /\ SubSeq(a, 1, i - 1) = SubSeq(b, 1, i - 1)
        /\ \/ i > Len(a) /\ i <= Len(b)
           \/ i <= Len(a) /\ i <= Len(b) /\ ord(a[i]) < ord(b[i])

\* settings.CRITICAL_PROCESSES
CRITICAL_PROCESSES ==
    << <<"e","x","p","l","o","r","e","r",".","e","x","e">>,
       <<"w","i","n","l","o","g","o","n",".","e","x","e">>,
       <<"s","e","r","v","i","c","e","s",".","e","x","e">>,
       <<"c","s","r","s","s",".","e","x","e">>,
       <<"s","v","c","h","o","s","t",".","e","x","e">>,
       <<"l","s","a","s","s",".","e","x","e">>,
       <<"S","y","s","t","e","m">> >>

\* The process names the OS reports in this model: the allowlist's "System"
\* in two spellings, a critical name in mixed case, and two ordinary names.
ProcNames ==
    { <<"S","y","s","t","e","m">>,
      <<"s","y","s","t","e","m">>,
      <<"L","S","A","S","S",".","e","x","e">>,
      <<"a","p","p",".","e","x","e">>,
      <<"Z","e","t","a">> }

NoName == << >>

\* the name of an ordinary program
ProcNames_app == <<"a","p","p",".","e","x","e">>

----------------------------------------------------------------------------
(* The operating system: processes are born and die on their own; a pid is *)
(* reused by a later process with a later creation time.                   *)

DeadProc == [alive |-> FALSE, name |-> NoName, created_time |-> 0]

InitOS == procs = [p \in Pids |-> DeadProc]

\* a new process takes a free pid
ProcSpawn(p, n) ==
    /\ ~procs[p].alive
    /\ procs[p].created_time < MaxCreate
    /\ procs' = [procs EXCEPT ![p] = [alive |-> TRUE, name |-> n,
                                      created_time |-> @.created_time + 1]]

\* a process exits (on its own, or after a signal it was sent)
ProcExit(p) ==
    /\ procs[p].alive
    /\ procs' = [procs EXCEPT ![p].alive = FALSE, ![p].name = NoName]

\* psutil.Process.is_running(): the process the handle was bound to is still
\* there (same pid, same creation time)
is_running(pid, created) ==
    procs[pid].alive /\ procs[pid].created_time = created

----------------------------------------------------------------------------
(* process_manager.terminate_process(pid).  The call is followed step by   *)
(* step, because the process table changes under it: the target may exit,  *)
(* and its pid may be taken by a new process, between any two OS calls.    *)
(* A signal is "sent" when psutil delivered it to the OS; psutil refuses   *)
(* to signal a handle whose process is gone (NoSuchProcess).               *)

\* psutil.wait_procs([process], timeout=3)
TERMINATE_TIMEOUT == 3

ResultKinds == {"none", "critical", "graceful", "forced", "not_found",
                "access_denied", "error", "raised"}

NoResult == [success |-> FALSE, kind |-> "none"]

InitTerminate ==
    /\ t_pc = "idle"
    /\ t_pid = 0
    /\ t_handle = 0
    /\ t_name = NoName
    /\ t_waited = 0
    /\ t_sent = << >>
    /\ t_result = NoResult
    /\ t_raised = "none"

\* a critical-process test that compares the names as spelled
is_critical_name_cased(name) ==
    \E i \in DOMAIN CRITICAL_PROCESSES : name = CRITICAL_PROCESSES[i]

\* process_name.lower() in [p.lower() for p in CRITICAL_PROCESSES]
is_critical_name(name) ==
    \E i \in DOMAIN CRITICAL_PROCESSES : lower(name) = lower(CRITICAL_PROCESSES[i])

\* the call returns (success, message); the message is kept as its kind
TerminateReturns(ok, kind) ==
    /\ t_result' = [success |-> ok, kind |-> kind]
    /\ t_raised' = "none"
    /\ t_pc' = "done"

\* a try block with the clause for NoSuchProcess only: anything else leaves
\* the function (kind "raised")
ExceptNoSuchProcessOnly(exception) ==
    IF exception = "NoSuchProcess"
    THEN [success |-> FALSE, kind |-> "not_found"]
    ELSE [success |-> FALSE, kind |-> "raised"]

\* the except clauses of terminate_process, lines 181-186: what the call
\* returns for an exception raised in its try block
ExceptClauses(exception) ==
    IF exception = "NoSuchProcess"
    THEN [success |-> FALSE, kind |-> "not_found"]
    ELSE IF exception = "AccessDenied"
    THEN [success |-> FALSE, kind |-> "access_denied"]
    ELSE [success |-> FALSE, kind |-> "error"]

\* an exception is raised inside the try block
TerminateRaises(exception) ==
    /\ t_result' = ExceptClauses(exception)
    /\ t_raised' = exception
    /\ t_pc' = "done"

\* process = psutil.Process(pid); process_name = process.name(); the
\* critical-process test
TerminateResolve(pid) ==
    /\ OutsideTerminate
    /\ t_pc \in {"idle", "done"}
    /\ t_pid' = pid
    /\ t_waited' = 0
    /\ t_sent' = << >>
    /\ IF ~procs[pid].alive
       THEN /\ t_handle' = 0
            /\ t_name' = NoName
            /\ TerminateRaises("NoSuchProcess")
       ELSE /\ t_handle' = procs[pid].created_time
            /\ t_name' = procs[pid].name
            /\ IF is_critical_name(procs[pid].name)
               THEN TerminateReturns(FALSE, "critical")
               ELSE /\ t_pc' = "checked"
                    /\ t_result' = NoResult
                    /\ t_raised' = "none"
    /\ UNCHANGED procs

\* process.terminate(): NoSuchProcess when the process is gone, AccessDenied
\* when the OS refuses, otherwise the graceful signal is delivered
TerminateSignal ==
    /\ OutsideTerminate
    /\ t_pc = "checked"
    /\ IF ~is_running(t_pid, t_handle)
       THEN /\ TerminateRaises("NoSuchProcess")
            /\ UNCHANGED <<t_sent, t_waited>>
       ELSE \E refused \in BOOLEAN :
              IF refused
              THEN /\ TerminateRaises("AccessDenied")
                   /\ UNCHANGED <<t_sent, t_waited>>
              ELSE /\ t_sent' = Append(t_sent, "terminate")
                   /\ t_waited' = 0
                   /\ t_pc' = "waiting"
                   /\ UNCHANGED <<t_result, t_raised>>
    /\ UNCHANGED <<procs, t_pid, t_handle, t_name>>

\* wait_procs: one more second passes with the process still alive
TerminateWaitTick ==
    /\ OutsideTerminate
    /\ t_pc = "waiting"
    /\ is_running(t_pid, t_handle)
    /\ t_waited < TERMINATE_TIMEOUT
    /\ t_waited' = t_waited + 1
    /\ UNCHANGED <<procs, t_pc, t_pid, t_handle, t_name, t_sent, t_result,
                   t_raised>>

\* wait_procs returns the process in `gone`: "encerrado com sucesso"
TerminateWaitGone ==
    /\ OutsideTerminate
    /\ t_pc = "waiting"
    /\ ~is_running(t_pid, t_handle)
    /\ TerminateReturns(TRUE, "graceful")
    /\ UNCHANGED <<procs, t_pid, t_handle, t_name, t_waited, t_sent>>

\* wait_procs times out with the process in `still_alive`
TerminateWaitTimeout ==
    /\ OutsideTerminate
    /\ t_pc = "waiting"
    /\ is_running(t_pid, t_handle)
    /\ t_waited = TERMINATE_TIMEOUT
    /\ t_pc' = "still_alive"
    /\ UNCHANGED <<procs, t_pid, t_handle, t_name, t_waited, t_sent, t_result,
                   t_raised>>

\* process.kill() of a process found in still_alive: NoSuchProcess (caught
\* by the handler of line 181) when it exited since the wait ended
TerminateKill ==
    /\ OutsideTerminate
    /\ t_pc = "still_alive"
    /\ IF ~is_running(t_pid, t_handle)
       THEN /\ TerminateRaises("NoSuchProcess")
            /\ UNCHANGED t_sent
       ELSE /\ t_sent' = Append(t_sent, "kill")
            /\ TerminateReturns(TRUE, "forced")
    /\ UNCHANGED <<procs, t_pid, t_handle, t_name, t_waited>>

----------------------------------------------------------------------------
(* ui.MainWindow: the sampling scheduler.                                  *)
(*                                                                         *)
(* Time is counted in half-seconds, the grain of the interval menu         *)
(* (0.5, 1, 2, 5, 10 s); QTimer.start(int(interval * 1000)) is exact on    *)
(* that grain.  update_data is followed from the moment it sets the flag   *)
(* to the moment its finally clause clears it, and a call of update_data   *)
(* may arrive at any point in between: that is the situation its guard is  *)
(* written for, and it covers every order in which Qt can deliver the      *)
(* callbacks.                                                              *)

\* settings.DEFAULT_UPDATE_INTERVAL, in seconds
DEFAULT_UPDATE_INTERVAL == 2

HalfSeconds(seconds) == seconds + seconds

\* the intervals set_update_interval is called with: 0.5 s, 1 s and 2 s of
\* the menu's [0.5, 1, 2, 5, 10]
IntervalChoices == {1, 2, HalfSeconds(DEFAULT_UPDATE_INTERVAL)}

\* QTimer.singleShot(500, self.update_data)
RefreshShot == [left |-> 1, what |-> "update_data"]

ViewModeOf(checked) == IF checked THEN "detalhado" ELSE "compacto"

\* settings.DEFAULT_VIEW_MODE
DEFAULT_VIEW_MODE == "compacto"

\* QTimer.singleShot(100, self._initial_load): due within the first half
\* second
InitialLoadShot == [left |-> 0, what |-> "initial_load"]

\* QTimer.singleShot(1000, lambda: self.update_timer.start())
TimerStartShot == [left |-> 2, what |-> "timer_start"]

\* settings.LAZY_LOADING: a setting whose value the configuration decides
LAZY_LOADING_Values == BOOLEAN

\* MainWindow.__init__: the state, the widgets, the timer started by
\* set_update_interval(DEFAULT_UPDATE_INTERVAL), and then, with
\* LAZY_LOADING off, one update_data call, which ran to its end, or, with
\* LAZY_LOADING on, the single shot for _initial_load.
InitSchedFor(lazy) ==
    /\ is_updating = FALSE
    /\ in_flight = 0
    /\ timer_active = TRUE
    /\ timer_left = HalfSeconds(DEFAULT_UPDATE_INTERVAL)
    /\ update_interval = HalfSeconds(DEFAULT_UPDATE_INTERVAL)
    /\ IF lazy
       THEN /\ shots = << InitialLoadShot >>
            /\ n_requests = 0
            /\ n_idle_requests = 0
            /\ n_samples = 0
            /\ last_outcome = "none"
       ELSE /\ shots = << >>
            /\ n_requests = 1
            /\ n_idle_requests = 1
            /\ n_samples = 1
            /\ last_outcome = "caught"
    /\ app_state = "open"
    /\ samples_at_close = 0
    /\ view_mode = DEFAULT_VIEW_MODE
    /\ detailed_mode = (DEFAULT_VIEW_MODE = "detalhado")
    /\ detail_checkbox = (DEFAULT_VIEW_MODE = "detalhado")
    /\ detail_action = (DEFAULT_VIEW_MODE = "detalhado")
    /\ toggle_cont = FALSE
    /\ toggle_wait = FALSE
    /\ lastEvent = "init"

InitSched == \E lazy \in LAZY_LOADING_Values : InitSchedFor(lazy)

\* the window is shown: the user can reach its buttons and menus
WindowOpen == app_state = "open"

\* app.exec() has not returned: Qt still delivers what is due
EventLoopRuns == app_state # "exited"

\* a handler that is not closeEvent
KeepsWindow == UNCHANGED <<app_state, samples_at_close>>

\* How a sampling pass can end.  self.system_info.update_info is called with
\* one argument and takes two, so every pass that gets that far raises
\* TypeError, as does any earlier failure: `except Exception` catches it and
\* logs ("caught").  An exception that is no Exception (KeyboardInterrupt)
\* leaves update_data ("escaped").
PassOutcomes == {"caught", "escaped"}

\* a pass whose flag is cleared at the end of the try and of the except
\* block only
FlagAfterPassNoFinally(outcome) == outcome = "escaped"

\* `finally: self.is_updating = False`
FlagAfterPass(outcome) == FALSE

\* a guard that lets every call through
MayStartSampleAlways == TRUE

\* `if self.is_updating: return`
MayStartSample == ~is_updating

\* a dropped call that runs the finally clause on its way out
DroppedCallClearsFlag == is_updating' = FALSE

\* the early return happens before the try: the flag is left as it is
DroppedCall == UNCHANGED is_updating

\* a call of update_data(): it starts a sampling pass (sets the flag) or
\* returns at once
CallUpdateData ==
    /\ n_requests < MaxRequests
    /\ n_requests' = n_requests + 1
    /\ n_idle_requests' = IF in_flight = 0 THEN n_idle_requests + 1
                          ELSE n_idle_requests
    /\ IF MayStartSample
       THEN /\ is_updating' = TRUE
            /\ in_flight' = in_flight + 1
            /\ n_samples' = n_samples + 1
       ELSE /\ DroppedCall
            /\ UNCHANGED <<in_flight, n_samples>>

\* the sampling pass ends: `finally: self.is_updating = False`
UpdateDataFinish ==
    /\ OutsideSched
    /\ KeepsWindow
    /\ EventLoopRuns
    /\ in_flight > 0
    /\ \E outcome \in PassOutcomes :
         /\ is_updating' = FlagAfterPass(outcome)
         /\ last_outcome' = outcome
    /\ in_flight' = in_flight - 1
    /\ toggle_wait' = FALSE
    /\ lastEvent' = "finish"
    /\ UNCHANGED <<timer_active, timer_left, update_interval, shots, view_mode,
                   detailed_mode, detail_checkbox, detail_action, toggle_cont,
                   n_requests, n_idle_requests, n_samples>>

\* update_timer.timeout -> update_data; the periodic timer rearms itself
TimerTick ==
    /\ OutsideSched
    /\ KeepsWindow
    /\ UNCHANGED last_outcome
    /\ EventLoopRuns
    /\ timer_active
    /\ timer_left = 0
    /\ timer_left' = update_interval
    /\ CallUpdateData
    /\ lastEvent' = "tick"
    /\ UNCHANGED <<timer_active, update_interval, shots, view_mode, detailed_mode,
                   detail_checkbox, detail_action, toggle_cont, toggle_wait>>

\* the "Atualizar" button and the F5 action -> update_data
ManualRefresh ==
    /\ OutsideSched
    /\ KeepsWindow
    /\ UNCHANGED last_outcome
    /\ WindowOpen
    /\ CallUpdateData
    /\ lastEvent' = "refresh"
    /\ UNCHANGED <<timer_active, timer_left, update_interval, shots, view_mode,
                   detailed_mode, detail_checkbox, detail_action, toggle_cont,
                   toggle_wait>>

\* _terminate_selected_process / _on_process_started:
\* QTimer.singleShot(500, self.update_data)
PostActionRefresh ==
    /\ OutsideSched
    /\ KeepsWindow
    /\ UNCHANGED last_outcome
    /\ WindowOpen
    /\ Len(shots) < MaxShots
    /\ shots' = Append(shots, RefreshShot)
    /\ lastEvent' = "post_action"
    /\ UNCHANGED <<is_updating, in_flight, timer_active, timer_left,
                   update_interval, view_mode, detailed_mode, detail_checkbox,
                   detail_action, toggle_cont, toggle_wait, n_requests,
                   n_idle_requests, n_samples>>

RemoveAt(seq, i) == SubSeq(seq, 1, i - 1) \o SubSeq(seq, i + 1, Len(seq))

\* a single shot comes due and calls update_data
ShotFire ==
    /\ OutsideSched
    /\ KeepsWindow
    /\ UNCHANGED last_outcome
    /\ EventLoopRuns
    /\ \E i \in DOMAIN shots :
         /\ shots[i].left = 0
         /\ shots[i].what = "update_data"
         /\ shots' = RemoveAt(shots, i)
    /\ CallUpdateData
    /\ lastEvent' = "shot"
    /\ UNCHANGED <<timer_active, timer_left, update_interval, view_mode,
                   detailed_mode, detail_checkbox, detail_action, toggle_cont,
                   toggle_wait>>

\* timer.stop(); timer.start(ms) keeping the tick that was pending
KeepPendingTick(interval) == IF timer_active THEN timer_left ELSE interval

\* self.update_timer.stop(); self.update_timer.start(int(interval * 1000)):
\* the time to the next timeout
RestartTimer(interval) == interval

\* set_update_interval(interval)
SetUpdateInterval(interval) ==
    /\ OutsideSched
    /\ KeepsWindow
    /\ UNCHANGED last_outcome
    /\ WindowOpen
    /\ update_interval' = interval
    /\ timer_active' = TRUE
    /\ timer_left' = RestartTimer(interval)
    /\ lastEvent' = "set_interval"
    /\ UNCHANGED <<is_updating, in_flight, shots, view_mode, detailed_mode,
                   detail_checkbox, detail_action, toggle_cont, toggle_wait,
                   n_requests, n_idle_requests, n_samples>>

\* The user flips the checkbox or the menu action.  _toggle_view_mode sets
\* both widgets; setting the one that was not clicked emits its toggled
\* signal, so the handler runs nested in itself: the nested run sets
\* view_mode and calls update_data, then the outer run does the same.  This
\* action is the click up to the nested run's update_data call.
ToggleViewMode ==
    /\ OutsideSched
    /\ KeepsWindow
    /\ UNCHANGED last_outcome
    /\ WindowOpen
    /\ ~toggle_cont
    /\ detail_checkbox' = ~detail_checkbox
    /\ detail_action' = ~detail_checkbox
    /\ view_mode' = ViewModeOf(~detail_checkbox)
    /\ CallUpdateData
    /\ toggle_cont' = TRUE
    /\ toggle_wait' = MayStartSample
    /\ lastEvent' = "toggle"
    /\ UNCHANGED <<timer_active, timer_left, update_interval, shots, detailed_mode>>

\* ... and this one is the outer run's: view_mode again, update_data again
ToggleViewModeOuter ==
    /\ OutsideSched
    /\ KeepsWindow
    /\ UNCHANGED last_outcome
    /\ EventLoopRuns
    /\ toggle_cont
    /\ ~toggle_wait
    /\ view_mode' = ViewModeOf(detail_checkbox)
    /\ CallUpdateData
    /\ toggle_cont' = FALSE
    /\ lastEvent' = "toggle_outer"
    /\ UNCHANGED <<timer_active, timer_left, update_interval, shots, detailed_mode,
                   detail_checkbox, detail_action, toggle_wait>>

\* the single shot of __init__ comes due: _initial_load fills the table
\* from a limited, undetailed list and schedules the start of the timer; if
\* filling the table raises, the except clause reports it and nothing is
\* scheduled
InitialLoad ==
    /\ OutsideSched
    /\ KeepsWindow
    /\ EventLoopRuns
    /\ \E i \in DOMAIN shots :
         /\ shots[i].left = 0
         /\ shots[i].what = "initial_load"
         /\ \E loaded \in BOOLEAN :
              shots' = IF loaded THEN Append(RemoveAt(shots, i), TimerStartShot)
                       ELSE RemoveAt(shots, i)
    /\ lastEvent' = "initial_load"
    /\ UNCHANGED <<is_updating, in_flight, timer_active, timer_left,
                   update_interval, view_mode, detailed_mode, detail_checkbox,
                   detail_action, toggle_cont, toggle_wait, n_requests,
                   n_idle_requests, n_samples, last_outcome>>

\* the single shot of _initial_load comes due: self.update_timer.start()
\* starts the timer, or restarts it, with the interval it has
TimerStart ==
    /\ OutsideSched
    /\ KeepsWindow
    /\ EventLoopRuns
    /\ \E i \in DOMAIN shots :
         /\ shots[i].left = 0
         /\ shots[i].what = "timer_start"
         /\ shots' = RemoveAt(shots, i)
    /\ timer_active' = TRUE
    /\ timer_left' = update_interval
    /\ lastEvent' = "timer_start"
    /\ UNCHANGED <<is_updating, in_flight, update_interval, view_mode,
                   detailed_mode, detail_checkbox, detail_action, toggle_cont,
                   toggle_wait, n_requests, n_idle_requests, n_samples,
                   last_outcome>>

\* closeEvent: self.update_timer.stop(); event.accept().  Nothing else is
\* cancelled.
CloseEvent ==
    /\ OutsideSched
    /\ WindowOpen
    /\ app_state' = "closed"
    /\ samples_at_close' = n_samples
    /\ timer_active' = FALSE
    /\ lastEvent' = "close"
    /\ UNCHANGED <<is_updating, in_flight, timer_left, update_interval, shots,
                   view_mode, detailed_mode, detail_checkbox, detail_action,
                   toggle_cont, toggle_wait, n_requests, n_idle_requests,
                   n_samples, last_outcome>>

\* The main window was the last one: QApplication leaves app.exec() and
\* main() ends the process.  Handlers that are running return first.
EventLoopExit ==
    /\ OutsideSched
    /\ app_state = "closed"
    /\ in_flight = 0
    /\ ~toggle_cont
    /\ app_state' = "exited"
    /\ lastEvent' = "exit"
    /\ UNCHANGED <<is_updating, in_flight, timer_active, timer_left,
                   update_interval, shots, view_mode, detailed_mode,
                   detail_checkbox, detail_action, toggle_cont, toggle_wait,
                   n_requests, n_idle_requests, n_samples, samples_at_close,
                   last_outcome>>

\* Half a second passes; a timeout that is due is delivered first.  Once the
\* window is closed the application is on its way out of the event loop:
\* what is due can still be delivered, no further half second passes.
Advance ==
    /\ OutsideSched
    /\ KeepsWindow
    /\ UNCHANGED last_outcome
    /\ WindowOpen
    /\ timer_active => timer_left > 0
    /\ \A i \in DOMAIN shots : shots[i].left > 0
    /\ timer_active \/ shots # << >>
    /\ timer_left' = IF timer_active THEN timer_left - 1 ELSE timer_left
    /\ shots' = [i \in DOMAIN shots |-> [shots[i] EXCEPT !.left = @ - 1]]
    /\ lastEvent' = "advance"
    /\ UNCHANGED <<is_updating, in_flight, timer_active, update_interval,
                   view_mode, detailed_mode, detail_checkbox, detail_action,
                   toggle_cont, toggle_wait, n_requests, n_idle_requests,
                   n_samples>>

----------------------------------------------------------------------------
(* The snapshot source and the process table.                              *)

\* Python's `sub in s` on strings
contains(sub, s) ==
    \E i \in 0..(Len(s) - Len(sub)) : SubSeq(s, i + 1, i + Len(sub)) = sub

\* the ProcessInfo built for a live pid (compact mode reads the name, the
\* status and the creation time and puts 0 for the CPU and the memory)
ProcessInfo(pid) ==
    [pid |-> pid, name |-> procs[pid].name,
     created_time |-> procs[pid].created_time,
     cpu_percent |-> 0, memory_mb |-> 0]

\* an Optional[int] is None or <<k>>
None == << >>

\* pids[:limit], for `limit is not None and limit > 0`
TruncatePids(pids, limit) ==
    IF limit # None /\ limit[1] > 0
    THEN IF limit[1] < Len(pids) THEN SubSeq(pids, 1, limit[1]) ELSE pids
    ELSE pids

\* psutil.pids(): the live pids, ascending
LivePids ==
    SelectSeq([p \in 1..MaxPid |-> p], LAMBDA p : procs[p].alive)

\* process_manager.get_process_list(detailed, limit)
get_process_list(detailed, limit) ==
    LET pids == TruncatePids(LivePids, limit)
    IN  [i \in 1..Len(pids) |-> ProcessInfo(pids[i])]

\* [p for p in processes if search_text in p.name.lower()], applied when the
\* text is not empty
FilterBySearchText(list, text) ==
    IF text = << >> THEN list
    ELSE SelectSeq(list, LAMBDA p : contains(lower(text), lower(p.name)))

\* the sort indicator of a new header: section 0, descending
DefaultHeaderSort == [section |-> "Nome", descending |-> TRUE]

InitTable ==
    /\ processes = << >>
    /\ search_text = << >>
    /\ table_rows = << >>
    /\ table_selected = 0
    /\ selected_pid = 0
    /\ sel_created = 0
    /\ header_sort = DefaultHeaderSort
    /\ w_text = << >>
    /\ w_sort = "Nome"

\* update_processes, lines 90-95: the pid shown in the selected row
SelectedPidOf ==
    IF table_selected = 0 THEN 0 ELSE table_rows[table_selected].pid

\* update_processes, lines 118-124: pid_row_map (a later row replaces an
\* earlier one with the same pid)
pid_row_map(rows) ==
    [p \in {rows[i].pid : i \in DOMAIN rows} |->
        CHOOSE i \in DOMAIN rows :
            /\ rows[i].pid = p
            /\ \A j \in DOMAIN rows : rows[j].pid = p => j <= i]

\* update_processes, lines 181-183: `if selected_pid in self.pid_row_map:
\* self.selectRow(...)`; clearContents has dropped the selection before
RestoredRow(rows, pid) ==
    IF pid \in DOMAIN pid_row_map(rows) THEN pid_row_map(rows)[pid] ELSE 0

\* row a is shown above row b under the sort indicator h: the items of the
\* section are compared, the name as text, the pid as the text of a number
\* of one digit
header_before(h, a, b) ==
    IF h.section = "Nome"
    THEN IF h.descending THEN str_less(b.name, a.name) ELSE str_less(a.name, b.name)
    ELSE IF h.descending THEN b.pid < a.pid ELSE a.pid < b.pid

\* the sort is stable
header_insert(sorted, x, h) ==
    LET later == {i \in DOMAIN sorted : header_before(h, x, sorted[i])}
    IN  IF later = {} THEN Append(sorted, x)
        ELSE LET at == CHOOSE i \in later : \A j \in later : i <= j
             IN  SubSeq(sorted, 1, at - 1) \o <<x>> \o SubSeq(sorted, at, Len(sorted))

RECURSIVE header_sorted(_, _)
header_sorted(rows, h) ==
    IF rows = << >> THEN << >>
    ELSE header_insert(header_sorted(SubSeq(rows, 1, Len(rows) - 1), h),
                       rows[Len(rows)], h)

\* setSortingEnabled(True), lines 57 and 179: the table sorts its rows by
\* the header's sort indicator
SortingEnabled(rows, h) == header_sorted(rows, h)

\* ProcessTableWidget.update_processes(new_rows), with the signal it makes
\* the table emit: selectRow -> _on_selection_changed -> processSelected ->
\* MainWindow._on_process_selected.  The rows are filled in the order of
\* new_rows with sorting off, pid_row_map keeps that order, sorting is put
\* back on, and the row pid_row_map names is selected.
UpdateProcesses(new_rows) ==
    LET row   == RestoredRow(new_rows, SelectedPidOf)
        shown == SortingEnabled(new_rows, header_sort)
    IN  /\ table_rows' = shown
        /\ table_selected' = row
        /\ selected_pid' = IF row # 0 THEN shown[row].pid ELSE selected_pid
        /\ sel_created' = IF row # 0 THEN sel_created ELSE 0

\* update_data as one step: sample, filter by search_text, show
Refresh ==
    /\ OutsideTable
    /\ processes' = FilterBySearchText(get_process_list(detailed_mode, None),
                                       search_text)
    /\ UpdateProcesses(processes')
    /\ UNCHANGED <<procs, search_text, header_sort, w_text, w_sort>>

\* the user clicks a row: itemSelectionChanged -> processSelected(pid)
SelectRow(row) ==
    /\ OutsideTable
    /\ row \in DOMAIN table_rows
    /\ row # table_selected
    /\ table_selected' = row
    /\ selected_pid' = table_rows[row].pid
    /\ sel_created' = table_rows[row].created_time
    /\ UNCHANGED <<procs, processes, search_text, table_rows, header_sort, w_text,
                   w_sort>>

\* the row that shows pid, 0 when none does
RowOfPid(rows, pid) ==
    IF \E i \in DOMAIN rows : rows[i].pid = pid
    THEN CHOOSE i \in DOMAIN rows : rows[i].pid = pid
    ELSE 0

\* the sections of the header the user clicks
HeaderSections == {"Nome", "PID"}

\* the user clicks a section of the header: the order flips on the section
\* that has the indicator, another section takes it ascending; the table
\* sorts its rows and the selection stays on its item
ClickHeader(section) ==
    /\ OutsideTable
    /\ header_sort' = IF header_sort.section = section
                      THEN [header_sort EXCEPT !.descending = ~@]
                      ELSE [section |-> section, descending |-> FALSE]
    /\ table_rows' = header_sorted(table_rows, header_sort')
    /\ table_selected' = RowOfPid(table_rows', SelectedPidOf)
    /\ UNCHANGED <<procs, processes, search_text, selected_pid, sel_created, w_text,
                   w_sort>>

----------------------------------------------------------------------------
(* monitoring.SystemMonitor and monitoring.ProcessMonitor.  One monitor    *)
(* object is followed; mon_kind is its class.  A data point is a wall      *)
(* clock reading and the CPU and RAM figures psutil measured.              *)

\* the (cpu, ram) figures psutil reports
Readings == { [cpu |-> 10, ram |-> 40], [cpu |-> 90, ram |-> 60] }

\* list.append: a history that is never trimmed
ListAppend(d, x, maxlen) == Append(d, x)

\* deque(maxlen=maxlen).append(x): the oldest entry leaves once full
DequeAppend(d, x, maxlen) ==
    LET a == Append(d, x)
    IN  IF Len(a) > maxlen THEN SubSeq(a, Len(a) - maxlen + 1, Len(a)) ELSE a

\* the three appends of _collect_data_point
PushPoint(ts, r) ==
    /\ timestamps' = DequeAppend(timestamps, ts, history_length)
    /\ cpu_history' = DequeAppend(cpu_history, r.cpu, history_length)
    /\ ram_history' = DequeAppend(ram_history, r.ram, history_length)
    /\ pushed' = Append(pushed, [ts |-> ts, cpu |-> r.cpu, ram |-> r.ram])

\* the monitor as its constructor leaves it at time 0: a SystemMonitor with
\* its first data point; a ProcessMonitor with its first data point, or
\* invalid (no such process, or the process gone before the first reading)
InitHistory ==
    /\ \E n \in 0..MaxHistory : history_length = n
    /\ mon_kind \in {"system", "process"}
    /\ proc_gone \in BOOLEAN
    /\ mon_kind = "system" => ~proc_gone
    /\ valid = ~proc_gone
    /\ \E r \in Readings :
         IF valid
         THEN /\ timestamps = DequeAppend(<< >>, 0, history_length)
              /\ cpu_history = DequeAppend(<< >>, r.cpu, history_length)
              /\ ram_history = DequeAppend(<< >>, r.ram, history_length)
              /\ pushed = << [ts |-> 0, cpu |-> r.cpu, ram |-> r.ram] >>
         ELSE /\ timestamps = << >>
              /\ cpu_history = << >>
              /\ ram_history = << >>
              /\ pushed = << >>
    /\ now = 1
    /\ returned = "none"

\* the monitor moves on: the is_suspicious call that had just returned is
\* no longer the latest thing that happened
ForgetSuspicious ==
    /\ susp_called' = FALSE
    /\ susp_defaulted' = FALSE
    /\ susp_cpu_threshold' = 0
    /\ susp_ram_threshold_mb' = 0
    /\ susp_result' = FALSE

\* update() reads cpu_history[-1] after collecting
ReturnsCurrent(history) == IF history = << >> THEN "IndexError" ELSE "data"

\* SystemMonitor.update(): _collect_data_point, then the dictionary.  The
\* clock is read first; the 0.1 s CPU measurement follows it.
SystemMonitorUpdate ==
    /\ OutsideHistory
    /\ ForgetSuspicious
    /\ mon_kind = "system"
    /\ Len(pushed) < MaxPushes
    /\ now < MaxTime
    /\ \E r \in Readings : PushPoint(now, r)
    /\ now' = now + 1
    /\ returned' = ReturnsCurrent(cpu_history')
    /\ UNCHANGED <<mon_kind, history_length, valid, proc_gone>>

\* ProcessMonitor.update()
ProcessMonitorUpdate ==
    /\ OutsideHistory
    /\ ForgetSuspicious
    /\ mon_kind = "process"
    /\ IF ~valid
       THEN /\ returned' = "None"
            /\ UNCHANGED <<timestamps, cpu_history, ram_history, pushed, valid, now>>
       ELSE IF proc_gone
       THEN \* psutil.NoSuchProcess inside _collect_data_point
            /\ valid' = FALSE
            /\ returned' = ReturnsCurrent(cpu_history)
            /\ UNCHANGED <<timestamps, cpu_history, ram_history, pushed, now>>
       ELSE /\ Len(pushed) < MaxPushes
            /\ now < MaxTime
            /\ \E r \in Readings : PushPoint(now, r)
            /\ now' = now + 1
            /\ returned' = ReturnsCurrent(cpu_history')
            /\ UNCHANGED valid
    /\ UNCHANGED <<mon_kind, history_length, proc_gone>>

\* the monitored process exits
MonitoredProcessExits ==
    /\ OutsideHistory
    /\ ForgetSuspicious
    /\ mon_kind = "process"
    /\ ~proc_gone
    /\ proc_gone' = TRUE
    /\ UNCHANGED <<mon_kind, history_length, cpu_history, ram_history, timestamps,
                   valid, pushed, now, returned>>

\* time.time() is the wall clock: it is set back when the system time is
\* corrected
ClockSetBack ==
    /\ OutsideHistory
    /\ ForgetSuspicious
    /\ now > 0
    /\ now' = now - 1
    /\ UNCHANGED <<mon_kind, history_length, cpu_history, ram_history, timestamps,
                   valid, proc_gone, pushed, returned>>

\* time passes between two calls
ClockAdvance ==
    /\ OutsideHistory
    /\ ForgetSuspicious
    /\ now < MaxTime
    /\ now' = now + 1
    /\ UNCHANGED <<mon_kind, history_length, cpu_history, ram_history, timestamps,
                   valid, proc_gone, pushed, returned>>

\* the default arguments of ProcessMonitor.is_suspicious
DEFAULT_CPU_THRESHOLD == 80
DEFAULT_RAM_THRESHOLD_MB == 1000

\* the thresholds is_suspicious is called with: the defaults, values the
\* readings meet exactly and values below them
CpuThresholds == {DEFAULT_CPU_THRESHOLD, 10}
RamThresholds == {DEFAULT_RAM_THRESHOLD_MB, 40, 20}

\* seq[-1]
Newest(seq) == seq[Len(seq)]

\* a test against every point of the history
AnyPointAbove(history, threshold) ==
    \E i \in DOMAIN history : history[i] > threshold

\* self.cpu_history[-1] > cpu_threshold
NewestAbove(history, threshold) == Newest(history) > threshold

\* ProcessMonitor.is_suspicious(cpu_threshold, ram_threshold_mb)
is_suspicious(cpu_threshold, ram_threshold_mb) ==
    IF ~valid \/ cpu_history = << >>
    THEN FALSE
    ELSE \/ NewestAbove(cpu_history, cpu_threshold)
         \/ NewestAbove(ram_history, ram_threshold_mb)

\* a call of is_suspicious on the ProcessMonitor, with arguments or with
\* its defaults
IsSuspicious(defaulted, cpu_threshold, ram_threshold_mb) ==
    /\ UNCHANGED <<osVars, termVars, schedVars, tableVars, histVars, avgVars, snapVars,
                   prioVars, launchVars, filterVars>>
    /\ mon_kind = "process"
    /\ defaulted => (cpu_threshold = DEFAULT_CPU_THRESHOLD
                     /\ ram_threshold_mb = DEFAULT_RAM_THRESHOLD_MB)
    /\ susp_called' = TRUE
    /\ susp_defaulted' = defaulted
    /\ susp_cpu_threshold' = cpu_threshold
    /\ susp_ram_threshold_mb' = ram_threshold_mb
    /\ susp_result' = is_suspicious(cpu_threshold, ram_threshold_mb)

----------------------------------------------------------------------------
(* SystemMonitor.get_average.  A float that is a quotient of two integers  *)
(* is kept as the pair of them, so that no rounding enters; a quotient     *)
(* whose divisor is 0 is Python's ZeroDivisionError.                       *)

\* the float n / d
Quotient(n, d) == [num |-> n, den |-> d]

\* the float of an integer
Float(n) == Quotient(n, 1)

\* evaluating the quotient raises ZeroDivisionError
Raises(q) == q.den = 0

\* the quotient q is the number n / d
EqualsQuotient(q, n, d) == /\ ~Raises(q)
                           /\ d # 0
                           /\ q.num * d = n * q.den

\* the points of one minute: get_average takes one point for one second
PointsPerMinute == 60

\* Python's min of two integers
min(a, b) == IF a <= b THEN a ELSE b

\* Python's sum of a list
RECURSIVE sum(_)
sum(seq) == IF seq = << >> THEN 0 ELSE Head(seq) + sum(Tail(seq))

\* Python's seq[start:]; a negative start counts from the end
PySliceFrom(seq, start) ==
    LET idx == IF start < 0
               THEN (IF Len(seq) + start < 0 THEN 0 ELSE Len(seq) + start)
               ELSE min(start, Len(seq))
    IN  SubSeq(seq, idx + 1, Len(seq))

\* get_average without its test for an empty window
NoPointsUnchecked(points) == FALSE

\* if points == 0
NoPoints(points) == points = 0

\* get_average(minutes)
get_average(minutes) ==
    LET points == min(Len(cpu_history), minutes * PointsPerMinute)
    IN  IF NoPoints(points)
        THEN [cpu |-> Float(0), ram |-> Float(0)]
        ELSE [cpu |-> Quotient(sum(PySliceFrom(cpu_history, 0 - points)), points),
              ram |-> Quotient(sum(PySliceFrom(ram_history, 0 - points)), points)]

\* the lengths of the series that are averaged
AverageLengths == (0..MaxExtra) \cup (PointsPerMinute..(PointsPerMinute + MaxExtra))

\* a SystemMonitor that has collected len points: the first old of them are
\* the reading a, the later ones the reading b
InitAverage ==
    \E len \in AverageLengths : \E cap \in AverageLengths :
    \E old \in 0..MaxExtra : \E a \in Readings : \E b \in Readings :
        LET r(i) == IF i <= old THEN a ELSE b
        IN  /\ old <= len
            /\ len <= cap
            /\ len = 0 <=> cap = 0
            /\ mon_kind = "system"
            /\ history_length = cap
            /\ timestamps  = [i \in 1..len |-> i - 1]
            /\ cpu_history = [i \in 1..len |-> r(i).cpu]
            /\ ram_history = [i \in 1..len |-> r(i).ram]
            /\ pushed = [i \in 1..len |-> [ts |-> i - 1, cpu |-> r(i).cpu, ram |-> r(i).ram]]
            /\ valid = TRUE
            /\ proc_gone = FALSE
            /\ now = len
            /\ returned = "none"

\* a call of get_average
GetAverage(minutes) ==
    /\ OutsideAverage
    /\ avg_called' = TRUE
    /\ avg_minutes' = minutes
    /\ avg_result' = get_average(minutes)

----------------------------------------------------------------------------
(* process_manager.get_process_list as a function of what the OS answers:  *)
(* the pids psutil.pids() returns and, for each of them, what reading the  *)
(* attributes of psutil.Process(pid) gives.                                *)

\* settings.CPU_ALERT_THRESHOLD and settings.RAM_ALERT_THRESHOLD, per cent
CPU_ALERT_THRESHOLD == 80
RAM_ALERT_THRESHOLD == 80

\* the exceptions the inner except clause names
SkippedFaults == {"NoSuchProcess", "AccessDenied", "ZombieProcess"}

\* what reading a process can raise: nothing, one of the three, or an error
\* of another class (OSError, psutil.TimeoutExpired, NotImplementedError)
Faults == {"none"} \cup SkippedFaults \cup {"OSError"}

\* the CPU and memory percentages psutil measures for a process
Loads == { [cpu |-> 10, mem |-> 20], [cpu |-> 90, mem |-> 20],
           [cpu |-> 10, mem |-> 90] }

\* what reading one process gives: its figures, or a fault
Answers ==
    { [fault |-> "none", cpu |-> l.cpu, mem |-> l.mem] : l \in Loads }
    \cup { [fault |-> f, cpu |-> 0, mem |-> 0] : f \in Faults \ {"none"} }

\* the entry of a pid
Entry(pid, answer) ==
    [pid |-> pid, fault |-> answer.fault, cpu |-> answer.cpu, mem |-> answer.mem]

\* the ProcessInfo built at lines 124-137 from what was read: the detailed
\* branch reads the figures, the simplified one puts 0; ProcessInfo.__init__
\* sets is_suspicious to False and nothing changes it
proc_info(entry, detailed) ==
    [pid |-> entry.pid,
     cpu_percent |-> IF detailed THEN entry.cpu ELSE 0,
     memory_percent |-> IF detailed THEN entry.mem ELSE 0,
     is_suspicious |-> FALSE]

\* the for loop of lines 81-143 over the entries from position i on, with
\* process_list as built so far: a fault of the inner except clause skips
\* the pid, any other one leaves the loop for the outer except clause
RECURSIVE scan(_, _, _, _)
scan(entries, i, detailed, process_list) ==
    IF i > Len(entries)
    THEN [list |-> process_list, raised |-> "none", printed |-> FALSE]
    ELSE IF entries[i].fault = "none"
    THEN scan(entries, i + 1, detailed,
              Append(process_list, proc_info(entries[i], detailed)))
    ELSE IF entries[i].fault \in SkippedFaults
    THEN scan(entries, i + 1, detailed, process_list)
    ELSE [list |-> process_list, raised |-> "none", printed |-> TRUE]

\* get_process_list(detailed, limit) when psutil.pids() raises (pids_fail)
\* or returns the pids of entries: the outer except clause prints the error
\* and the function returns process_list as it is
process_list_of(pids_fail, entries, detailed, limit) ==
    IF pids_fail
    THEN [list |-> << >>, raised |-> "none", printed |-> TRUE]
    ELSE scan(TruncatePids(entries, limit), 1, detailed, << >>)

\* no call has returned
NoSnapshot == [list |-> << >>, raised |-> "none", printed |-> FALSE]

\* the OS and the arguments one call meets
InitSnapshot ==
    /\ snap_pids_fail \in BOOLEAN
    /\ \E n \in 0..MaxListed :
         /\ \E answer \in [1..n -> Answers] :
              snap_entries = [i \in 1..n |-> Entry(i, answer[i])]
         /\ snap_limit \in {None} \cup {<<k>> : k \in (0 - 1)..(n + 1)}
    /\ snap_pids_fail => snap_entries = << >>
    /\ snap_detailed \in BOOLEAN
    /\ snap_called = FALSE
    /\ snap_result = NoSnapshot

\* the call
GetProcessList ==
    /\ OutsideSnapshot
    /\ ~snap_called
    /\ snap_called' = TRUE
    /\ snap_result' = process_list_of(snap_pids_fail, snap_entries,
                                      snap_detailed, snap_limit)
    /\ UNCHANGED <<snap_pids_fail, snap_entries, snap_detailed, snap_limit>>

----------------------------------------------------------------------------
(* process_manager.change_process_priority.                                *)

\* the keys of priority_map
PriorityLevels == {"baixa", "normal", "alta", "tempo_real"}

\* the levels the function is called with: the four keys, and strings that
\* are no key
CalledLevels == PriorityLevels \cup {"urgente", "Alta", ""}

\* psutil's Windows priority classes
BELOW_NORMAL_PRIORITY_CLASS == 16384
NORMAL_PRIORITY_CLASS == 32
HIGH_PRIORITY_CLASS == 128
REALTIME_PRIORITY_CLASS == 256

\* priority_map[level]: psutil has the class constants on Windows only;
\* elsewhere the fallbacks are taken
priority_map(on, level) ==
    CASE level = "baixa" ->
           IF on = "win32" THEN BELOW_NORMAL_PRIORITY_CLASS ELSE 0 - 10
      [] level = "normal" ->
           IF on = "win32" THEN NORMAL_PRIORITY_CLASS ELSE 0
      [] level = "alta" ->
           IF on = "win32" THEN HIGH_PRIORITY_CLASS ELSE 10
      [] level = "tempo_real" ->
           IF on = "win32" THEN REALTIME_PRIORITY_CLASS ELSE 20

\* the priority a new process has
DefaultPriority(on) == IF on = "win32" THEN NORMAL_PRIORITY_CLASS ELSE 0

\* what the OS holds after the change: os.setpriority keeps the nice value
\* within -20..19, process.nice(class) stores the class
StoredPriority(on, value) ==
    IF on = "win32" THEN value
    ELSE IF value > 19 THEN 19 ELSE IF value < 0 - 20 THEN 0 - 20 ELSE value

\* a function that looks the process up first
LevelIsKeyUnchecked(level) == TRUE

\* `priority_level not in priority_map`, negated
LevelIsKey(level) == level \in PriorityLevels

InitPriority ==
    /\ platform \in {"win32", "linux"}
    /\ os_priority = [p \in Pids |-> 0]
    /\ pr_called = FALSE
    /\ pr_pid = 0
    /\ pr_level = ""
    /\ pr_lookups = 0
    /\ pr_sets = 0
    /\ pr_result = NoResult

\* the call returns
PriorityReturns(ok, kind, lookups, sets) ==
    /\ pr_result' = [success |-> ok, kind |-> kind]
    /\ pr_lookups' = lookups
    /\ pr_sets' = sets

\* change_process_priority(pid, priority_level)
ChangeProcessPriority(pid, level) ==
    /\ UNCHANGED <<osVars, termVars, schedVars, tableVars, histVars, avgVars, snapVars,
                   suspVars, launchVars, filterVars>>
    /\ pr_called' = TRUE
    /\ pr_pid' = pid
    /\ pr_level' = level
    /\ UNCHANGED platform
    /\ IF ~LevelIsKey(level)
       THEN /\ PriorityReturns(FALSE, "invalid_level", 0, 0)
            /\ UNCHANGED os_priority
       ELSE IF ~procs[pid].alive
       THEN \* psutil.Process(pid) raises NoSuchProcess
            /\ PriorityReturns(FALSE, "not_found", 1, 0)
            /\ UNCHANGED os_priority
       ELSE IF level \notin PriorityLevels
       THEN \* priority_map[priority_level] is a KeyError, caught by
            \* `except Exception`
            /\ PriorityReturns(FALSE, "error", 1, 0)
            /\ UNCHANGED os_priority
       ELSE \E refused \in BOOLEAN :
              IF refused
              THEN \* psutil.AccessDenied from process.nice on Windows;
                   \* PermissionError from os.setpriority elsewhere
                   /\ PriorityReturns(FALSE,
                          IF platform = "win32" THEN "access_denied" ELSE "error",
                          1, 1)
                   /\ UNCHANGED os_priority
              ELSE /\ PriorityReturns(TRUE, "changed", 1, 1)
                   /\ os_priority' =
                        [os_priority EXCEPT ![pid] =
                            StoredPriority(platform, priority_map(platform, level))]

\* a process starts with the default priority
PrioritySpawn(p) ==
    /\ ProcSpawn(p, ProcNames_app)
    /\ os_priority' = [os_priority EXCEPT ![p] = DefaultPriority(platform)]
    /\ UNCHANGED <<termVars, schedVars, tableVars, histVars, avgVars, snapVars, suspVars,
                   launchVars, filterVars>>
    /\ UNCHANGED <<platform, pr_called, pr_pid, pr_level, pr_lookups, pr_sets, pr_result>>

\* a process exits
PriorityExit(p) ==
    /\ ProcExit(p)
    /\ os_priority' = [os_priority EXCEPT ![p] = 0]
    /\ UNCHANGED <<termVars, schedVars, tableVars, histVars, avgVars, snapVars, suspVars,
                   launchVars, filterVars>>
    /\ UNCHANGED <<platform, pr_called, pr_pid, pr_level, pr_lookups, pr_sets, pr_result>>

----------------------------------------------------------------------------
(* process_manager.start_new_process.  Commands are sequences of           *)
(* characters, like names.                                                 *)

\* str.endswith(suffix)
endswith(str, suffix) ==
    /\ Len(str) >= Len(suffix)
    /\ SubSeq(str, Len(str) - Len(suffix) + 1, Len(str)) = suffix

\* command.endswith(('.exe', '.bat', '.cmd'))
EndsWithExecutableSuffix(command) ==
    \/ endswith(command, <<".","e","x","e">>)
    \/ endswith(command, <<".","b","a","t">>)
    \/ endswith(command, <<".","c","m","d">>)

\* str.split(): the words between the blanks, from position i on, with the
\* word begun and the words completed so far
RECURSIVE split_from(_, _, _, _)
split_from(str, i, word, words) ==
    IF i > Len(str)
    THEN IF word = << >> THEN words ELSE Append(words, word)
    ELSE IF str[i] = " "
    THEN split_from(str, i + 1, << >>,
                    IF word = << >> THEN words ELSE Append(words, word))
    ELSE split_from(str, i + 1, Append(word, str[i]), words)

split(str) == split_from(str, 1, << >>, << >>)

\* the commands the function is called with
Commands ==
    { << >>,
      <<"a","p","p",".","e","x","e">>,
      <<"n","o","t","e","s",".","t","x","t">>,
      <<"m","y"," ","a","p","p",".","e","x","e">>,
      <<"l","s">> }

\* the files the OS may hold
Files == Commands \ { << >> }

\* no call has returned
NoLaunch == [success |-> FALSE, kind |-> "none", pid |-> 0]

\* the branch start_new_process takes
TakesShellPath(on, command) ==
    on = "win32" /\ ~EndsWithExecutableSuffix(command)

\* the OS and the argument one call meets
InitLaunch ==
    /\ l_platform \in {"win32", "linux"}
    /\ l_files \in SUBSET Files
    /\ l_command \in Commands
    /\ l_called = FALSE
    /\ l_path = "none"
    /\ l_started = FALSE
    /\ l_result = NoLaunch

\* start_new_process(command).  On the shell path Popen starts the command
\* interpreter, which runs `start "" command`; what becomes of that is not
\* looked at.  On the direct path psutil.Popen(command.split()) raises when
\* there is no word or when the first word names no file that can be run.
StartNewProcess ==
    /\ UNCHANGED <<osVars, termVars, schedVars, tableVars, histVars, avgVars, snapVars,
                   suspVars, prioVars, filterVars>>
    /\ ~l_called
    /\ l_called' = TRUE
    /\ UNCHANGED <<l_platform, l_files, l_command>>
    /\ IF TakesShellPath(l_platform, l_command)
       THEN /\ l_path' = "shell"
            /\ l_started' = (l_command \in l_files)
            /\ l_result' = [success |-> TRUE, kind |-> "started", pid |-> 0]
       ELSE /\ l_path' = "direct"
            /\ LET argv == split(l_command)
               IN  IF argv # << >> /\ argv[1] \in l_files
                   THEN /\ l_started' = TRUE
                        /\ \E pid \in Pids :
                             l_result' = [success |-> TRUE, kind |-> "started_pid",
                                          pid |-> pid]
                   ELSE /\ l_started' = FALSE
                        /\ l_result' = [success |-> FALSE, kind |-> "error", pid |-> 0]

----------------------------------------------------------------------------
(* MainWindow._apply_filter: the search filter, then list.sort by the key  *)
(* the combo names.                                                        *)

\* processes handed to one call: at most MaxSorted of them
MaxSorted == 3

\* the items of sort_combo
SortChoices == {"Nome", "PID", "CPU", "RAM"}

\* currentText().lower() for the items of sort_combo
lower_word(text) ==
    CASE text = "Nome" -> "nome"
      [] text = "PID"  -> "pid"
      [] text = "CPU"  -> "cpu"
      [] text = "RAM"  -> "ram"

\* key=lambda p: p.name, the key a sort that kept the case would use
name_key_cased(p) == p.name

\* key=lambda p: p.name.lower()
name_key(p) == lower(p.name)

\* key(a) < key(b) for the key that sort_by names
key_less(sort_by, a, b) ==
    CASE sort_by = "nome" -> str_less(name_key(a), name_key(b))
      [] sort_by = "pid"  -> a.pid < b.pid
      [] sort_by = "cpu"  -> a.cpu_percent < b.cpu_percent
      [] sort_by = "ram"  -> a.memory_mb < b.memory_mb

\* reverse=True
reverse(sort_by) == sort_by \in {"cpu", "ram"}

\* a comes out before b whatever their places in the list
goes_before(sort_by, a, b) ==
    IF reverse(sort_by) THEN key_less(sort_by, b, a) ELSE key_less(sort_by, a, b)

\* list.sort is stable: an item goes behind every item that does not have
\* to come after it
insert_stable(sorted, x, sort_by) ==
    LET later == {i \in DOMAIN sorted : goes_before(sort_by, x, sorted[i])}
    IN  IF later = {} THEN Append(sorted, x)
        ELSE LET at == CHOOSE i \in later : \A j \in later : i <= j
             IN  SubSeq(sorted, 1, at - 1) \o <<x>> \o SubSeq(sorted, at, Len(sorted))

\* processes.sort(key=..., reverse=...)
RECURSIVE list_sort(_, _)
list_sort(list, sort_by) ==
    IF list = << >> THEN << >>
    ELSE insert_stable(list_sort(SubSeq(list, 1, Len(list) - 1), sort_by),
                       list[Len(list)], sort_by)

\* a filter that compares the text with the names as they are written
FilterCased(list, text) ==
    IF text = << >> THEN list
    ELSE SelectSeq(list, LAMBDA p : contains(text, p.name))

\* [p for p in processes if search_text in p.name.lower()], when there is
\* a search text
filter_by_name(list, text) ==
    IF text = << >> THEN list
    ELSE SelectSeq(list, LAMBDA p : contains(text, lower(p.name)))

\* a filter that has not run
NotFiltered == [called |-> FALSE, list |-> << >>]

\* find_process_by_name: [p for p in all_processes if name.lower() in
\* p.name.lower()]
find_by_name(all_processes, name) ==
    SelectSeq(all_processes, LAMBDA p : contains(lower(name), lower(p.name)))

\* the if/elif chain on sort_by
sort_processes(list, sort_by) ==
    IF sort_by \in {"nome", "pid", "cpu", "ram"} THEN list_sort(list, sort_by)
    ELSE list

\* _apply_filter(processes) with the texts of the two widgets: the list the
\* sort is given, the list returned, and the list passed as the call leaves
\* it.  Without a search text the list sorted is the list passed: sort()
\* orders it in place.
apply_filter(list, search_input, sort_combo) ==
    LET text     == lower(search_input)
        sort_by  == lower_word(sort_combo)
        filtered == filter_by_name(list, text)
        result   == sort_processes(filtered, sort_by)
    IN  [filtered |-> filtered, result |-> result,
         argument |-> IF text = << >> THEN result ELSE list]

\* the records one call may be given, one per pid
SortRecord(pid) ==
    CASE pid = 1 -> [pid |-> 1, name |-> <<"z","e","t","a">>,
                     cpu_percent |-> 10, memory_mb |-> 40]
      [] pid = 2 -> [pid |-> 2, name |-> <<"A","l","p","h","a">>,
                     cpu_percent |-> 90, memory_mb |-> 40]
      [] pid = 3 -> [pid |-> 3, name |-> <<"b","e","t","a">>,
                     cpu_percent |-> 50, memory_mb |-> 60]
      [] pid = 4 -> [pid |-> 4, name |-> <<"Z","e","t","a">>,
                     cpu_percent |-> 10, memory_mb |-> 20]

SortPids == 1..4

\* the searches typed
SearchTexts == { << >>, <<"Z">> }

\* the lists one call may be given: every pid at most once, in any order
InitFilter ==
    /\ \E n \in 0..MaxSorted :
         \E pids \in [1..n -> SortPids] :
            /\ \A i, j \in 1..n : i # j => pids[i] # pids[j]
            /\ f_processes = [i \in 1..n |-> SortRecord(pids[i])]
    /\ f_search \in SearchTexts
    /\ f_sort_by \in SortChoices
    /\ f_called = FALSE
    /\ f_filtered = << >>
    /\ f_result = << >>
    /\ f_refresh = NotFiltered
    /\ f_found = NotFiltered

\* _apply_filter(processes)
ApplyFilter ==
    /\ UNCHANGED <<osVars, termVars, schedVars, tableVars, histVars, avgVars, snapVars,
                   suspVars, prioVars, launchVars>>
    /\ ~f_called
    /\ f_called' = TRUE
    /\ UNCHANGED <<f_processes, f_search, f_sort_by, f_refresh, f_found>>
    /\ LET call == apply_filter(f_processes, f_search, f_sort_by)
       IN  /\ f_filtered' = call.filtered
           /\ f_result' = call.result

\* the filter of update_data, with self.search_text = f_search
UpdateDataFilter ==
    /\ UNCHANGED <<osVars, termVars, schedVars, tableVars, histVars, avgVars, snapVars,
                   suspVars, prioVars, launchVars>>
    /\ ~f_refresh.called
    /\ f_refresh' = [called |-> TRUE,
                     list |-> FilterBySearchText(f_processes, f_search)]
    /\ UNCHANGED <<f_processes, f_search, f_sort_by, f_called, f_filtered, f_result,
                   f_found>>

\* find_process_by_name(f_search), get_process_list having returned
\* f_processes
FindProcessByName ==
    /\ UNCHANGED <<osVars, termVars, schedVars, tableVars, histVars, avgVars, snapVars,
                   suspVars, prioVars, launchVars>>
    /\ ~f_found.called
    /\ f_found' = [called |-> TRUE, list |-> find_by_name(f_processes, f_search)]
    /\ UNCHANGED <<f_processes, f_search, f_sort_by, f_called, f_filtered, f_result,
                   f_refresh>>

\* MainWindow._on_filter_changed: _apply_filter(self.processes), then
\* update_processes with what it returned
OnFilterChanged(search_input, sort_combo) ==
    LET call == apply_filter(processes, search_input, sort_combo)
    IN  /\ processes' = call.argument
        /\ UpdateProcesses(call.result)

\* the user edits the search text: textChanged -> filterChanged
TypeSearch(text) ==
    /\ OutsideTable
    /\ text # w_text
    /\ w_text' = text
    /\ OnFilterChanged(text, w_sort)
    /\ UNCHANGED <<procs, search_text, header_sort, w_sort>>

\* the user picks another item of the combo: currentTextChanged ->
\* filterChanged
ChooseSort(item) ==
    /\ OutsideTable
    /\ item # w_sort
    /\ w_sort' = item
    /\ OnFilterChanged(w_text, item)
    /\ UNCHANGED <<procs, search_text, header_sort, w_text>>

----------------------------------------------------------------------------
(* Specifications.                                                         *)

\* no monitor is followed
IdleHistory ==
    /\ mon_kind = "none"
    /\ history_length = 0
    /\ cpu_history = << >>
    /\ ram_history = << >>
    /\ timestamps = << >>
    /\ valid = FALSE
    /\ proc_gone = FALSE
    /\ pushed = << >>
    /\ now = 0
    /\ returned = "none"

\* no is_suspicious call has just returned
IdleSuspicious ==
    /\ susp_called = FALSE
    /\ susp_defaulted = FALSE
    /\ susp_cpu_threshold = 0
    /\ susp_ram_threshold_mb = 0
    /\ susp_result = FALSE

\* change_process_priority is not followed
IdlePriority ==
    /\ platform = "linux"
    /\ os_priority = [p \in Pids |-> 0]
    /\ pr_called = FALSE
    /\ pr_pid = 0
    /\ pr_level = ""
    /\ pr_lookups = 0
    /\ pr_sets = 0
    /\ pr_result = NoResult

\* _apply_filter is not followed
IdleFilter ==
    /\ f_processes = << >>
    /\ f_search = << >>
    /\ f_sort_by = "Nome"
    /\ f_called = FALSE
    /\ f_filtered = << >>
    /\ f_result = << >>
    /\ f_refresh = NotFiltered
    /\ f_found = NotFiltered

\* start_new_process is not followed
IdleLaunch ==
    /\ l_platform = "linux"
    /\ l_files = {}
    /\ l_command = << >>
    /\ l_called = FALSE
    /\ l_path = "none"
    /\ l_started = FALSE
    /\ l_result = NoLaunch

\* get_process_list is not followed
IdleSnapshot ==
    /\ snap_pids_fail = FALSE
    /\ snap_entries = << >>
    /\ snap_detailed = FALSE
    /\ snap_limit = None
    /\ snap_called = FALSE
    /\ snap_result = NoSnapshot

\* get_average has not been called
IdleAverage ==
    /\ avg_called = FALSE
    /\ avg_minutes = 0
    /\ avg_result = [cpu |-> Float(0), ram |-> Float(0)]

\* ---- SpecTerminate: terminate_process calls while processes come and go
InitT ==
    /\ InitOS
    /\ InitTerminate
    /\ InitSchedFor(FALSE)
    /\ InitTable
    /\ IdleHistory
    /\ IdleAverage
    /\ IdleFilter
    /\ IdleLaunch
    /\ IdlePriority
    /\ IdleSuspicious
    /\ IdleSnapshot

T_ProcSpawn ==
    /\ \E p \in Pids, n \in ProcNames : ProcSpawn(p, n)
    /\ OutsideOS

T_ProcExit ==
    /\ \E p \in Pids : ProcExit(p)
    /\ OutsideOS

T_Resolve == \E pid \in Pids : TerminateResolve(pid)

NextT ==
    \/ T_ProcSpawn
    \/ T_ProcExit
    \/ T_Resolve
    \/ TerminateSignal
    \/ TerminateWaitTick
    \/ TerminateWaitGone
    \/ TerminateWaitTimeout
    \/ TerminateKill

SpecTerminate == InitT /\ [][NextT]_vars

----------------------------------------------------------------------------
(* Claims about terminate_process (SpecTerminate).                         *)

\* the allowlist, lowered once: the reference the claims compare against
LoweredAllowlist ==
    { lower(CRITICAL_PROCESSES[i]) : i \in DOMAIN CRITICAL_PROCESSES }

\* C1: when the name a terminate call resolved is on the critical allowlist
\* (compared case-insensitively), the call has returned success = false with
\* the critical-process message and has sent neither the graceful signal nor
\* the kill; so no call ever signals a process with a critical name.
C1_CriticalNeverSignalled ==
    (t_pc # "idle" /\ t_name # NoName /\ lower(t_name) \in LoweredAllowlist)
        => /\ t_sent = << >>
           /\ t_pc = "done"
           /\ t_result = [success |-> FALSE, kind |-> "critical"]

\* C1 witness: a live process named "system" (the allowlist spells it
\* "System") was the target of a call, which refused.
C1_Witness ==
    /\ t_pc = "done"
    /\ t_name = <<"s","y","s","t","e","m">>
    /\ is_running(t_pid, t_handle)
    /\ t_result.kind = "critical"

\* C2 (as claimed): the kill is only ever sent after the graceful signal and
\* after a wait that ran the full timeout with the process still alive, and
\* a call that delivered the graceful signal returns the "forced" message
\* exactly when it sent the kill and the "graceful success" message exactly
\* when it did not.
C2_GracefulThenForced ==
    /\ t_sent \in { << >>, <<"terminate">>, <<"terminate", "kill">> }
    /\ (t_sent = <<"terminate", "kill">> => t_waited = TERMINATE_TIMEOUT)
    /\ (t_pc = "done" /\ t_sent # << >>)
         => /\ (t_result.kind = "forced") <=> (t_sent = <<"terminate", "kill">>)
            /\ (t_result.kind = "graceful") <=> (t_sent = <<"terminate">>)

\* C17: a terminate call on a pid that no longer exists returns success =
\* false with the not-found message, a call the OS refuses returns success =
\* false with the access-denied message, and in both cases the failure is the
\* value the call returns: nothing is raised to the caller.
C17_FailuresAreReturned ==
    t_pc = "done" =>
        /\ t_handle = 0 => t_raised = "NoSuchProcess"
        /\ t_raised = "NoSuchProcess"
              => t_result = [success |-> FALSE, kind |-> "not_found"]
        /\ t_raised = "AccessDenied"
              => t_result = [success |-> FALSE, kind |-> "access_denied"]
        /\ t_result.kind # "raised"

\* C17 witness: the OS refused the signal for a live, non-critical process
\* and the call returned the access-denied outcome
C17_Witness ==
    /\ t_pc = "done"
    /\ t_raised = "AccessDenied"
    /\ is_running(t_pid, t_handle)
    /\ t_sent = << >>
    /\ t_result = [success |-> FALSE, kind |-> "access_denied"]

\* C25: a call that returns success = false has delivered no signal to the
\* process; a call that delivered the graceful signal reports success =
\* true, also when the process exits between the end of the wait and the
\* kill.
C25_FailureMeansNoSignal ==
    (t_pc = "done" /\ ~t_result.success) => t_sent = << >>

----------------------------------------------------------------------------
\* ---- SpecSched: the update timer, the requests and the sampling pass
InitS ==
    /\ InitOS
    /\ InitTerminate
    /\ InitSched
    /\ InitTable
    /\ IdleHistory
    /\ IdleAverage
    /\ IdleFilter
    /\ IdleLaunch
    /\ IdlePriority
    /\ IdleSuspicious
    /\ IdleSnapshot

S_SetUpdateInterval == \E i \in IntervalChoices : SetUpdateInterval(i)

NextS ==
    \/ TimerTick
    \/ ManualRefresh
    \/ PostActionRefresh
    \/ ShotFire
    \/ S_SetUpdateInterval
    \/ ToggleViewMode
    \/ ToggleViewModeOuter
    \/ UpdateDataFinish
    \/ InitialLoad
    \/ TimerStart
    \/ CloseEvent
    \/ EventLoopExit
    \/ Advance

SpecSched == InitS /\ [][NextS]_vars

----------------------------------------------------------------------------
(* Claims about the scheduler (SpecSched).                                 *)

\* C3: under every interleaving of timer ticks, manual refreshes, view-mode
\* toggles and delayed post-action refreshes, at most one execution of
\* update_data is between setting and clearing the in-flight flag, and the
\* flag is set exactly while one is.
C3_OneSampleInFlight ==
    /\ in_flight \in {0, 1}
    /\ is_updating <=> (in_flight = 1)

\* C3 witness: a timer tick arrived while a sample was in flight, and still
\* exactly one is.
C3_Witness ==
    /\ lastEvent = "tick"
    /\ in_flight = 1
    /\ n_requests > n_idle_requests

C10_PendingTickKept ==
    [][(lastEvent' = "set_interval" /\ timer_active)
          => (timer_active' /\ timer_left' = timer_left)]_vars

\* C10 (amended): set_update_interval restarts the timer: the tick that was
\* pending is cancelled and the next one is due a full new interval after
\* the call; the timer never holds a tick further away than one interval.
C10_IntervalRestartsTimer ==
    /\ lastEvent = "set_interval" => (timer_active /\ timer_left = update_interval)
    /\ timer_active => timer_left \in 0..update_interval

\* C10 witness: the interval was changed from the default to 0.5 s on a
\* running timer, and the next tick is 0.5 s away.
C10_Witness ==
    /\ lastEvent = "set_interval"
    /\ timer_active
    /\ update_interval = 1
    /\ timer_left = 1

\* C11: once closeEvent has stopped the update timer no sampling pass is
\* started any more, not by a delayed refresh that was scheduled before the
\* stop either.
C11_NoSampleAfterStop ==
    app_state # "open" => n_samples = samples_at_close

\* C12: a sampling pass that fails does not stop the scheduler.  However the
\* pass ends, its end clears the in-flight flag and leaves the timer as it
\* is, and a timer tick that finds no pass in flight starts a new one.
C12_FailedPassKeepsScheduler ==
    [][ /\ (lastEvent' = "finish" /\ in_flight' = 0)
            => (~is_updating' /\ timer_active' = timer_active
                              /\ timer_left' = timer_left)
        /\ (lastEvent' = "tick" /\ in_flight = 0)
            => (is_updating' /\ n_samples' = n_samples + 1) ]_vars

\* C27: the mode a sample is requested with is the state of the detailed-
\* mode toggle: every step that starts a sampling pass passes detailed =
\* true when the toggle is on and detailed = false when it is off.
C27_SampleModeFollowsToggle ==
    [][ n_samples' = n_samples + 1 => detailed_mode' = detail_checkbox' ]_vars

\* C12 witness: a pass ended with an exception that left update_data, and
\* the timer tick after it started a new pass (every call so far started
\* one).
C12_Witness ==
    /\ lastEvent = "tick"
    /\ last_outcome = "escaped"
    /\ in_flight = 1
    /\ is_updating
    /\ n_requests = n_samples
    /\ n_samples >= 2

----------------------------------------------------------------------------
\* ---- SpecTable: the table refreshed while processes come and go
InitTb ==
    /\ InitOS
    /\ InitTerminate
    /\ InitSchedFor(FALSE)
    /\ InitTable
    /\ IdleHistory
    /\ IdleAverage
    /\ IdleFilter
    /\ IdleLaunch
    /\ IdlePriority
    /\ IdleSuspicious
    /\ IdleSnapshot

Tb_ProcSpawn ==
    /\ \E p \in Pids, n \in ProcNames : ProcSpawn(p, n)
    /\ OutsideOS

Tb_ProcExit ==
    /\ \E p \in Pids : ProcExit(p)
    /\ OutsideOS

Tb_SelectRow == \E row \in 1..MaxPid : SelectRow(row)

Tb_ClickHeader == \E section \in HeaderSections : ClickHeader(section)

NextTb ==
    \/ Tb_ProcSpawn
    \/ Tb_ProcExit
    \/ Refresh
    \/ Tb_SelectRow
    \/ Tb_ClickHeader

SpecTable == InitTb /\ [][NextTb]_vars

----------------------------------------------------------------------------
(* Claims about the table (SpecTable).                                     *)

\* C5 (as claimed): the selected row always shows the process the user
\* selected: a refresh that finds the selected pid with another creation
\* time (the pid was reused) clears the selection instead of selecting the
\* new process's row.
C5_ReusedPidNotReselected ==
    table_selected # 0 => table_rows[table_selected].created_time = sel_created

\* the pid _terminate_selected_process hands to _terminate_process: the
\* remembered pid, when a record of self.processes has it; 0 when the
\* handler returns without terminating
TerminateTarget ==
    IF selected_pid # 0 /\ \E i \in DOMAIN processes : processes[i].pid = selected_pid
    THEN selected_pid
    ELSE 0

\* C24: 'terminate selected process' only targets the process whose row is
\* selected: the pid the main window remembers is unset or is the pid of
\* the selected row, so with no row selected the action terminates nothing,
\* also when a later snapshot holds a new process with the old pid.
C24_TargetIsSelectedRow ==
    /\ selected_pid # 0 =>
          (table_selected # 0 /\ table_rows[table_selected].pid = selected_pid)
    /\ TerminateTarget # 0 =>
          (table_selected # 0 /\ table_rows[table_selected].pid = TerminateTarget)

\* C28: a refresh carries the selection over by pid: when a row was selected
\* and the new list shows a record with its pid, the row of that record is
\* the selected one afterwards, wherever it is; otherwise no row is
\* selected afterwards.
C28_SelectionCarriedByPid ==
    [][ Refresh =>
          IF SelectedPidOf # 0
             /\ \E i \in DOMAIN table_rows' : table_rows'[i].pid = SelectedPidOf
          THEN /\ table_selected' # 0
               /\ table_rows'[table_selected'].pid = SelectedPidOf
          ELSE table_selected' = 0 ]_vars

----------------------------------------------------------------------------
\* ---- SpecView: the table refreshed while the user edits the filter
V_TypeSearch == \E text \in SearchTexts : TypeSearch(text)

V_ChooseSort == \E item \in SortChoices : ChooseSort(item)

NextV ==
    \/ Tb_ProcSpawn
    \/ Tb_ProcExit
    \/ Refresh
    \/ V_TypeSearch
    \/ V_ChooseSort

SpecView == InitTb /\ [][NextV]_vars

\* C22: filtering and sorting do not change the batch held as the latest
\* snapshot: a filter-changed event leaves the stored list with the records
\* the sample produced, in the order the sample produced them.
C22_FilterKeepsSnapshot ==
    [][ (V_TypeSearch \/ V_ChooseSort) => processes' = processes ]_vars

\* C26: the table a refresh displays is the one the filter text and the
\* sort key of the filter widget ask for: it shows for the new snapshot the
\* rows the filter-changed path shows for it.
C26_RefreshKeepsFilter ==
    [][ Refresh =>
          table_rows' =
              SortingEnabled(apply_filter(get_process_list(detailed_mode, None),
                                          w_text, w_sort).result,
                             header_sort) ]_vars

----------------------------------------------------------------------------
\* ---- SpecHistory: a monitor collecting data points
InitH ==
    /\ InitOS
    /\ InitTerminate
    /\ InitSchedFor(FALSE)
    /\ InitTable
    /\ InitHistory
    /\ IdleAverage
    /\ IdleFilter
    /\ IdleLaunch
    /\ IdlePriority
    /\ IdleSuspicious
    /\ IdleSnapshot

NextH ==
    \/ SystemMonitorUpdate
    \/ ProcessMonitorUpdate
    \/ MonitoredProcessExits
    \/ ClockSetBack
    \/ ClockAdvance

SpecHistory == InitH /\ [][NextH]_vars

----------------------------------------------------------------------------
\* ---- SpecAverage: get_average on a monitor with a history
InitA ==
    /\ InitOS
    /\ InitTerminate
    /\ InitSchedFor(FALSE)
    /\ InitTable
    /\ InitAverage
    /\ IdleAverage
    /\ IdleFilter
    /\ IdleLaunch
    /\ IdlePriority
    /\ IdleSuspicious
    /\ IdleSnapshot

A_GetAverage == \E minutes \in (0 - 1)..MaxMinutes : GetAverage(minutes)

NextA == A_GetAverage

SpecAverage == InitA /\ [][NextA]_vars

\* the last n entries of a sequence
LastOf(seq, n) == SubSeq(seq, Len(seq) - n + 1, Len(seq))

\* how many pushed points a series of the monitor's capacity retains
Retained == IF Len(pushed) < history_length THEN Len(pushed) ELSE history_length

\* C6: a history series of capacity N holds, after k pushes, exactly the last
\* min(k, N) pushed points in push order, for a SystemMonitor and for a
\* ProcessMonitor; so it never holds more than N points, and after N+1
\* pushes its oldest point is the second one pushed.
C6_LastPointsRetained ==
    LET kept == LastOf(pushed, Retained)
    IN  /\ Len(timestamps) <= history_length
        /\ timestamps  = [i \in 1..Retained |-> kept[i].ts]
        /\ cpu_history = [i \in 1..Retained |-> kept[i].cpu]
        /\ ram_history = [i \in 1..Retained |-> kept[i].ram]

\* a ProcessMonitor of capacity N >= 2 after N+1 pushes: the first point is
\* gone and the second is the oldest one kept
C6_Witness ==
    /\ mon_kind = "process"
    /\ history_length >= 2
    /\ Len(pushed) = history_length + 1
    /\ Len(timestamps) = history_length
    /\ timestamps[1] = pushed[2].ts
    /\ timestamps[1] # pushed[1].ts

\* C7: the timestamps of a history series are strictly increasing from the
\* oldest to the newest; a point that is not newer than the newest stored
\* one is never appended.
C7_TimestampsIncrease ==
    \A i \in 1..Len(timestamps) : \A j \in 1..Len(timestamps) :
        i < j => timestamps[i] < timestamps[j]

\* C29: the CPU, RAM and timestamp series have one length and index i of
\* each belongs to one collected data point (a point goes into all three or
\* into none), and an update call that leaves a ProcessMonitor invalid, or
\* finds it so, returns no data.
C29_SeriesAlignedInvalidSilent ==
    /\ Len(cpu_history) = Len(timestamps)
    /\ Len(ram_history) = Len(timestamps)
    /\ \A i \in DOMAIN timestamps :
          \E k \in DOMAIN pushed :
              pushed[k] = [ts |-> timestamps[i], cpu |-> cpu_history[i],
                           ram |-> ram_history[i]]
    /\ (mon_kind = "process" /\ ~valid /\ returned # "none") => returned = "None"

\* the part of C29 about the series: they stay aligned, and those of an
\* invalid ProcessMonitor do not change
C29_SeriesPart ==
    [][ /\ Len(cpu_history') = Len(timestamps')
        /\ Len(ram_history') = Len(timestamps')
        /\ ~valid => UNCHANGED <<timestamps, cpu_history, ram_history>> ]_vars

\* C8: get_average on an empty history returns 0.0 for the CPU and for the
\* RAM and raises nothing, whatever the window.
C8_EmptyAverageIsZero ==
    (avg_called /\ cpu_history = << >> /\ ram_history = << >>)
        => /\ EqualsQuotient(avg_result.cpu, 0, 1)
           /\ EqualsQuotient(avg_result.ram, 0, 1)

\* get_average(-1) was called on an empty history and returned zero
C8_Witness ==
    /\ avg_called
    /\ cpu_history = << >>
    /\ avg_minutes < 0
    /\ avg_result.cpu.num = 0
    /\ ~Raises(avg_result.cpu)

\* the quotient q is the mean of the last n values of a series; of no
\* values there is no mean, and the 0.0 of an empty series stands for it
IsMeanOfLast(q, series, n) ==
    IF n >= 1
    THEN /\ n <= Len(series)
         /\ EqualsQuotient(q, sum(LastOf(series, n)), n)
    ELSE EqualsQuotient(q, 0, 1)

\* the window of w minutes on a series of len points
Window(len, w) == IF w * PointsPerMinute < len THEN w * PointsPerMinute ELSE len

\* C9: on a non-empty series of L values get_average(w) is the arithmetic
\* mean of the last min(L, w*60) values, for every w, zero and negative w
\* included.
C9_MeanForEveryWindow ==
    (avg_called /\ cpu_history # << >>)
        => /\ IsMeanOfLast(avg_result.cpu, cpu_history, Window(Len(cpu_history), avg_minutes))
           /\ IsMeanOfLast(avg_result.ram, ram_history, Window(Len(ram_history), avg_minutes))

----------------------------------------------------------------------------
\* ---- SpecSnapshot: one get_process_list call
InitSn ==
    /\ InitOS
    /\ InitTerminate
    /\ InitSchedFor(FALSE)
    /\ InitTable
    /\ IdleHistory
    /\ IdleAverage
    /\ IdleFilter
    /\ IdleLaunch
    /\ IdlePriority
    /\ IdleSuspicious
    /\ InitSnapshot

NextSn == GetProcessList

SpecSnapshot == InitSn /\ [][NextSn]_vars

\* C13: every record a sampling pass returns has is_suspicious equal to
\* (cpu_percent > CPU threshold or memory > RAM threshold).
C13_SuspiciousIsThresholdTest ==
    snap_called =>
        \A i \in DOMAIN snap_result.list :
            LET R == snap_result.list[i]
            IN  R.is_suspicious <=> (R.cpu_percent > CPU_ALERT_THRESHOLD
                                     \/ R.memory_percent > RAM_ALERT_THRESHOLD)

\* the pids of the listed processes, within the limit, whose reading succeeds
ReadablePids ==
    LET listed == TruncatePids(snap_entries, snap_limit)
        good == SelectSeq(listed, LAMBDA e : e.fault = "none")
    IN  [i \in DOMAIN good |-> good[i].pid]

\* C15: a failure on one process, of whatever kind, costs only that process:
\* every other enumerated pid whose reading succeeds is in the returned list,
\* in enumeration order, and no error reaches the caller.
C15_FaultCostsOneProcess ==
    (snap_called /\ ~snap_pids_fail) =>
        /\ [i \in DOMAIN snap_result.list |-> snap_result.list[i].pid] = ReadablePids
        /\ snap_result.raised = "none"

\* C16: when psutil.pids() itself fails the call fails with an error that
\* reaches the caller, and no list is returned.
C16_SourceFailurePropagates ==
    (snap_called /\ snap_pids_fail) => snap_result.raised # "none"

\* C23: a limit keeps the call to the first `limit` pids of the list the OS
\* returned (at most `limit` records, none for a pid behind that prefix);
\* without a limit, and with a limit of 0 or below, every enumerated pid is
\* considered, so that every pid whose reading succeeds has its record.
C23_LimitTruncatesOnly ==
    (snap_called /\ ~snap_pids_fail) =>
        IF snap_limit # None /\ snap_limit[1] > 0
        THEN /\ Len(snap_result.list) <= snap_limit[1]
             /\ \A i \in DOMAIN snap_result.list :
                    \E j \in DOMAIN snap_entries :
                        /\ j <= snap_limit[1]
                        /\ snap_entries[j].pid = snap_result.list[i].pid
        ELSE \A j \in DOMAIN snap_entries :
                snap_entries[j].fault = "none" =>
                    \E i \in DOMAIN snap_result.list :
                        snap_result.list[i].pid = snap_entries[j].pid

\* the part of C23 about the truncation: the records are those of pids in
\* the prefix, and a limit of 0 or below gives what no limit gives
C23_TruncationPart ==
    (snap_called /\ ~snap_pids_fail) =>
        /\ (snap_limit # None /\ snap_limit[1] > 0) =>
              /\ Len(snap_result.list) <= snap_limit[1]
              /\ \A i \in DOMAIN snap_result.list :
                    snap_result.list[i].pid <= snap_limit[1]
        /\ (snap_limit # None /\ snap_limit[1] <= 0) =>
              snap_result = process_list_of(FALSE, snap_entries, snap_detailed, None)

----------------------------------------------------------------------------
\* ---- SpecSuspicious: a ProcessMonitor that is updated and asked
InitSu ==
    /\ InitH
    /\ mon_kind = "process"

Su_IsSuspicious ==
    \E defaulted \in BOOLEAN : \E c \in CpuThresholds : \E r \in RamThresholds :
        IsSuspicious(defaulted, c, r)

NextSu ==
    \/ Su_IsSuspicious
    \/ ProcessMonitorUpdate
    \/ MonitoredProcessExits

SpecSuspicious == InitSu /\ [][NextSu]_vars

\* C14: ProcessMonitor.is_suspicious returns true exactly when the monitor
\* is valid, has a data point, and its newest CPU value is strictly above
\* cpu_threshold or its newest RAM value strictly above ram_threshold_mb;
\* older points do not count, and without arguments the thresholds are 80
\* and 1000.
C14_SuspiciousIsNewestAboveThreshold ==
    susp_called =>
        /\ susp_result <=>
              /\ valid
              /\ Len(cpu_history) >= 1
              /\ \/ cpu_history[Len(cpu_history)] > susp_cpu_threshold
                 \/ ram_history[Len(ram_history)] > susp_ram_threshold_mb
        /\ susp_defaulted =>
              (susp_cpu_threshold = 80 /\ susp_ram_threshold_mb = 1000)

\* C14 witness: the newest CPU and RAM values equal their thresholds, an
\* older CPU value is above its threshold, and the answer is false
C14_Witness ==
    /\ susp_called
    /\ valid
    /\ Len(cpu_history) >= 2
    /\ cpu_history[Len(cpu_history)] = susp_cpu_threshold
    /\ ram_history[Len(ram_history)] = susp_ram_threshold_mb
    /\ cpu_history[1] > susp_cpu_threshold
    /\ ~susp_result

----------------------------------------------------------------------------
\* ---- SpecPriority: change_process_priority against a changing process table
InitP ==
    /\ InitOS
    /\ InitTerminate
    /\ InitSchedFor(FALSE)
    /\ InitTable
    /\ IdleHistory
    /\ IdleAverage
    /\ IdleFilter
    /\ IdleLaunch
    /\ IdleSuspicious
    /\ IdleSnapshot
    /\ InitPriority

P_Spawn == \E p \in Pids : PrioritySpawn(p)

P_Exit == \E p \in Pids : PriorityExit(p)

P_ChangeProcessPriority ==
    \E pid \in Pids : \E level \in CalledLevels : ChangeProcessPriority(pid, level)

NextP ==
    \/ P_Spawn
    \/ P_Exit
    \/ P_ChangeProcessPriority

SpecPriority == InitP /\ [][NextP]_vars

\* C18: a call with a level that is none of the four returns success = false
\* with the invalid-level message, looks no process up and changes no
\* priority, whether the pid exists or not.
C18_InvalidLevelFirst ==
    (pr_called /\ pr_level \notin {"baixa", "normal", "alta", "tempo_real"})
        => /\ pr_result = [success |-> FALSE, kind |-> "invalid_level"]
           /\ pr_lookups = 0
           /\ pr_sets = 0

\* C18 witness: an unknown level for a pid that does not exist: invalid
\* level, not not-found
C18_Witness ==
    /\ pr_called
    /\ pr_level = "urgente"
    /\ ~procs[pr_pid].alive
    /\ pr_result.kind = "invalid_level"
    /\ pr_lookups = 0

\* the four levels from the lowest to the highest
LevelOrder == <<"baixa", "normal", "alta", "tempo_real">>

LevelRank(level) == CHOOSE i \in DOMAIN LevelOrder : LevelOrder[i] = level

\* how much the scheduler favours a process with a native priority: the
\* order of the Windows priority classes; elsewhere the nice value, where
\* a smaller number is a higher priority
Favour(on, native) ==
    IF on = "win32"
    THEN CASE native = BELOW_NORMAL_PRIORITY_CLASS -> 1
           [] native = NORMAL_PRIORITY_CLASS -> 2
           [] native = HIGH_PRIORITY_CLASS -> 3
           [] native = REALTIME_PRIORITY_CLASS -> 4
    ELSE 0 - native

\* C30: the table from levels to native priorities keeps the order of the
\* levels on every platform: the priority a successful call has given a
\* process is no higher than the one any higher level gives and no lower
\* than the one any lower level gives.
C30_LevelOrderKept ==
    (/\ pr_called /\ pr_result.success
     /\ procs[pr_pid].alive
     /\ os_priority[pr_pid] = StoredPriority(platform, priority_map(platform, pr_level)))
    =>
        \A other \in PriorityLevels :
            LET applied == Favour(platform, os_priority[pr_pid])
                others  == Favour(platform,
                                  StoredPriority(platform,
                                                 priority_map(platform, other)))
            IN  /\ LevelRank(pr_level) <= LevelRank(other) => applied <= others
                /\ LevelRank(pr_level) >= LevelRank(other) => applied >= others

\* the same on Windows alone
C30_OrderKeptOnWindows == platform = "win32" => C30_LevelOrderKept

----------------------------------------------------------------------------
\* ---- SpecLaunch: one start_new_process call
InitL ==
    /\ InitOS
    /\ InitTerminate
    /\ InitSchedFor(FALSE)
    /\ InitTable
    /\ IdleHistory
    /\ IdleAverage
    /\ IdleFilter
    /\ IdleSuspicious
    /\ IdleSnapshot
    /\ IdlePriority
    /\ InitLaunch

NextL == StartNewProcess

SpecLaunch == InitL /\ [][NextL]_vars

\* C19: the call returns (true, message, pid) exactly when it spawned the
\* process directly, (true, message, none) exactly when it delegated the
\* launch to the shell, and (false, message, none) whenever the OS started
\* nothing, an empty command included; it never returns false with a pid.
C19_LaunchOutcomes ==
    l_called =>
        /\ (l_result.success /\ l_result.pid # 0) <=> (l_path = "direct" /\ l_started)
        /\ (l_result.success /\ l_result.pid = 0) <=> (l_path = "shell" /\ l_started)
        /\ (~l_started \/ l_command = << >>)
              => (~l_result.success /\ l_result.pid = 0)
        /\ ~(~l_result.success /\ l_result.pid # 0)

----------------------------------------------------------------------------
\* ---- SpecFilter: one _apply_filter call
InitF ==
    /\ InitOS
    /\ InitTerminate
    /\ InitSchedFor(FALSE)
    /\ InitTable
    /\ IdleHistory
    /\ IdleAverage
    /\ IdleSuspicious
    /\ IdleSnapshot
    /\ IdlePriority
    /\ IdleLaunch
    /\ InitFilter

NextF ==
    \/ ApplyFilter
    \/ UpdateDataFilter
    \/ FindProcessByName

SpecFilter == InitF /\ [][NextF]_vars

\* the order the chosen key asks of a record a placed before a record b:
\* 0 when the keys are equal, 1 when a has to come first, 2 when b has to
InOrder(by, a, b) ==
    CASE by = "Nome" ->
           IF lower(a.name) = lower(b.name) THEN 0
           ELSE IF str_less(lower(a.name), lower(b.name)) THEN 1 ELSE 2
      [] by = "PID" ->
           IF a.pid = b.pid THEN 0 ELSE IF a.pid < b.pid THEN 1 ELSE 2
      [] by = "CPU" ->
           IF a.cpu_percent = b.cpu_percent THEN 0
           ELSE IF a.cpu_percent > b.cpu_percent THEN 1 ELSE 2
      [] by = "RAM" ->
           IF a.memory_mb = b.memory_mb THEN 0
           ELSE IF a.memory_mb > b.memory_mb THEN 1 ELSE 2

\* out holds the records of in, each once, ordered by the key, records with
\* equal keys in the order they had in in
StablePermutation(by, in, out) ==
    /\ Len(out) = Len(in)
    /\ \E f \in [DOMAIN out -> DOMAIN in] :
         /\ \A i, j \in DOMAIN out : i # j => f[i] # f[j]
         /\ \A i \in DOMAIN out : out[i] = in[f[i]]
         /\ \A i, j \in DOMAIN out :
              i < j => \/ InOrder(by, out[i], out[j]) = 1
                       \/ InOrder(by, out[i], out[j]) = 0 /\ f[i] < f[j]

\* C20: the sort returns a permutation of its input ordered by the chosen
\* key (name ascending without regard to case, pid ascending, cpu
\* descending, memory descending); no record is added, lost or duplicated
\* and records with equal keys keep their input order.
C20_SortIsStablePermutation ==
    f_called => StablePermutation(f_sort_by, f_filtered, f_result)

\* names [zeta, Alpha, beta] have come out as [Alpha, beta, zeta]
C20_Witness ==
    /\ f_called
    /\ f_sort_by = "Nome"
    /\ f_filtered = <<SortRecord(1), SortRecord(2), SortRecord(3)>>
    /\ f_result = <<SortRecord(2), SortRecord(3), SortRecord(1)>>

\* the records of list whose name holds text, both taken without regard to
\* case, in the order of list
NameMatches(list, text) ==
    SelectSeq(list, LAMBDA p :
        \E i \in 0..(Len(p.name) - Len(text)) :
            \A k \in 1..Len(text) : lower_char(p.name[i + k]) = lower_char(text[k]))

\* C21: the filter returns exactly the records whose name contains the
\* substring, both compared without regard to case, in input order, every
\* record for an empty substring; the refresh path, the filter-changed path
\* and find_process_by_name give this same list.
C21_FiltersAgree ==
    /\ f_called => f_filtered = NameMatches(f_processes, f_search)
    /\ f_refresh.called => f_refresh.list = NameMatches(f_processes, f_search)
    /\ f_found.called => f_found.list = NameMatches(f_processes, f_search)

\* the three have run on a list of zeta, Alpha and Zeta for the text Z and
\* each kept zeta and Zeta
C21_Witness ==
    /\ f_called /\ f_refresh.called /\ f_found.called
    /\ f_search = <<"Z">>
    /\ f_processes = <<SortRecord(1), SortRecord(2), SortRecord(4)>>
    /\ f_filtered = <<SortRecord(1), SortRecord(4)>>
    /\ f_refresh.list = f_filtered
    /\ f_found.list = f_filtered

====
